---------------------------- MODULE Spec2Model ----------------------------
(***************************************************************************)
(* A model of gorm-cache: the versioned object / query cache of            *)
(* CacheDaoBase over a memcache client, and the in-process single-flight   *)
(* proxy AntiPenetrateWithCache.                                           *)
(*                                                                         *)
(* Strings are TLA+ strings; keys are built with "_" exactly as the Go     *)
(* code builds them, and decimal tokens are formatted and parsed digit by  *)
(* digit.                                                                  *)
(***************************************************************************)
EXTENDS Integers, Sequences, FiniteSets, TLC

(***************************************************************************)
(* Bounds of the model.                                                    *)
(***************************************************************************)
NumCallers == 2      \* goroutines that call AntiPenetrateWithCache
MaxCalls == 2        \* calls they make in all
NumProcs == 2        \* goroutines that use the CacheDao concurrently
MaxOps == 2          \* CacheDao operations they start in all
MaxClock == 2        \* the last millisecond the clock reaches
MaxId == 1           \* the largest primary key in the data source
MaxBatchId == 2      \* the largest primary key when GetByIds is exercised
MaxIdsLen == 3       \* the longest id list given to GetByIds
NumDaos == 2         \* the CacheDaos registered in CacheDaoMap
MaxListLen == 2      \* the longest list argument given to GetByConcreteKeys

(***************************************************************************)
(* util: decimal conversion and string helpers (src/util/util.go).         *)
(***************************************************************************)
DigitChars == <<"0", "1", "2", "3", "4", "5", "6", "7", "8", "9">>

RECURSIVE ConvertUNumberToString(_)
ConvertUNumberToString(n) ==
    IF n < 10 THEN DigitChars[n + 1]
    ELSE ConvertUNumberToString(n \div 10) \o DigitChars[(n % 10) + 1]

ConvertNumberToString(n) ==
    IF n < 0 THEN "-" \o ConvertUNumberToString(0 - n)
    ELSE ConvertUNumberToString(n)

DigitValue(c) == CHOOSE d \in 0..9 : DigitChars[d + 1] = c

IsDigit(c) == \E d \in 0..9 : DigitChars[d + 1] = c

AllDigits(s) == Len(s) > 0 /\ \A i \in 1..Len(s) : IsDigit(SubSeq(s, i, i))

RECURSIVE ParseDigits(_)
ParseDigits(s) ==
    IF Len(s) = 0 THEN 0
    ELSE 10 * ParseDigits(SubSeq(s, 1, Len(s) - 1))
         + DigitValue(SubSeq(s, Len(s), Len(s)))

\* strconv.ParseUint with the error dropped: 0 for anything that is no number
ConvertStringToUNumber(s) == IF AllDigits(s) THEN ParseDigits(s) ELSE 0

\* strconv.ParseInt with the error dropped
ConvertStringToNumber(s) ==
    IF AllDigits(s) THEN ParseDigits(s)
    ELSE IF Len(s) > 1 /\ SubSeq(s, 1, 1) = "-" /\ AllDigits(SubSeq(s, 2, Len(s)))
         THEN 0 - ParseDigits(SubSeq(s, 2, Len(s)))
         ELSE 0

RECURSIVE JoinStrings(_, _)
JoinStrings(parts, sep) ==
    IF Len(parts) = 0 THEN ""
    ELSE IF Len(parts) = 1 THEN parts[1]
    ELSE parts[1] \o sep \o JoinStrings(Tail(parts), sep)

\* strings.Split(s, sep) for a one-character separator
RECURSIVE SplitFrom(_, _, _, _)
SplitFrom(s, sep, i, start) ==
    IF i > Len(s) THEN <<SubSeq(s, start, Len(s))>>
    ELSE IF SubSeq(s, i, i) = sep
         THEN <<SubSeq(s, start, i - 1)>> \o SplitFrom(s, sep, i + 1, i + 1)
         ELSE SplitFrom(s, sep, i + 1, start)

SplitString(s, sep) == SplitFrom(s, sep, 1, 1)

\* a map (a function with a growing domain) as the Go maps and the KV store
EmptyMap == [k \in {} |-> ""]

MapPut(m, k, v) == (k :> v) @@ m

MapDelete(m, k) == [x \in (DOMAIN m) \ {k} |-> m[x]]

(***************************************************************************)
(* Single-flight proxy: AntiPenetrateWithCache (package core).             *)
(***************************************************************************)
VARIABLES
    antiPanetrateMap,   \* sync.Map: fingerprint -> the rendezvous stored for it
    gc,                 \* the memo cache: fingerprint -> [Value, expire], with
                        \* the moment and the cacheMillis of the write
    wv,                 \* the WrappedValue objects: id -> [WaitGroup, Value]
    sf,                 \* per goroutine: its position in AntiPenetrateWithCache
    calleeRet,          \* history: what the callee returned to the leader of a rendezvous
    sfNow               \* the wall clock of the proxy, in milliseconds

sfVars == <<antiPanetrateMap, gc, wv, sf, calleeRet, sfNow>>

Callers == 1..NumCallers

\* an argument of the proxied function: a scalar <<"int", text>> or
\* <<"string", text>>, a struct <<"struct", text>>, a slice
\* <<"slice", elements>>, or a map <<"map", entries>> whose entries
\* <<key, value>> stand in the order objValue.MapKeys() yields them in the call
StrV(s) == <<"string", s>>

IntV(n) == <<"int", ConvertNumberToString(n)>>

Kind(v) == v[1]

\* fmt.Sprintf("%v", v) of a scalar or a struct: the text, without the type
SprintfV(v) == v[2]

\* the input tuples of the proxied function (scalar text arguments)
InputValues == {<<StrV("x")>>, <<StrV("y")>>}

\* the values the proxied function may return first; it returns (value, nil)
\* and every invocation returns a value of its own
CalleeValues == {DigitChars[i + 1] : i \in 1..9}

\* the cacheMillis arguments: AntiPenetrate passes 0
CacheMillisValues == {0, 500}

\* the moments at which the goroutines get to run
SFTimes == {0, 100, 550, 650, 750}

\* the bytes of the texts, in ascending order
ByteOrder == "0123456789abxy"

ByteRank(c) == CHOOSE i \in 1..Len(ByteOrder) : SubSeq(ByteOrder, i, i) = c

\* the < of Go on strings: bytewise, a proper prefix first
RECURSIVE TextLess(_, _)
TextLess(s, t) ==
    IF Len(t) = 0 THEN FALSE
    ELSE IF Len(s) = 0 THEN TRUE
    ELSE LET a == ByteRank(SubSeq(s, 1, 1))
             b == ByteRank(SubSeq(t, 1, 1))
         IN  IF a # b THEN a < b
             ELSE TextLess(SubSeq(s, 2, Len(s)), SubSeq(t, 2, Len(t)))

\* sort.Slice on pairs <<text, item>> with less comparing the texts: the
\* insertion sort it runs on a short slice, which moves an item to the left
\* only past items with a greater text
RECURSIVE InsertEntry(_, _)
InsertEntry(sorted, e) ==
    IF Len(sorted) = 0 THEN <<e>>
    ELSE IF TextLess(e[1], sorted[Len(sorted)][1])
         THEN Append(InsertEntry(SubSeq(sorted, 1, Len(sorted) - 1), e),
                     sorted[Len(sorted)])
         ELSE Append(sorted, e)

RECURSIVE SortSlice(_)
SortSlice(entries) ==
    IF Len(entries) = 0 THEN <<>>
    ELSE InsertEntry(SortSlice(SubSeq(entries, 1, Len(entries) - 1)),
                     entries[Len(entries)])

\* util.GenMd5: the hex digest of a text; texts that differ have digests that
\* differ (no two texts of the model collide under md5)
GenMd5(str) == "md5(" \o str \o ")"

\* fmt.Sprintf("%v", list) of a []interface{} or a []SortEntry
SprintfList(texts) == "[" \o JoinStrings(texts, " ") \o "]"

\* the text MakePenetrateKey appends for one argument
ArgText(arg) ==
    IF Kind(arg) = "struct" THEN GenMd5(SprintfV(arg))
    ELSE IF Kind(arg) = "slice" THEN
        LET newArray == SortSlice([i \in 1..Len(arg[2]) |->
                                      <<SprintfV(arg[2][i]), arg[2][i]>>])
        IN  GenMd5(SprintfList([i \in 1..Len(newArray) |->
                                   SprintfV(newArray[i][2])]))
    ELSE IF Kind(arg) = "map" THEN
        LET newMapArray == SortSlice([i \in 1..Len(arg[2]) |->
                                        <<SprintfV(arg[2][i][1]), arg[2][i][2]>>])
        IN  GenMd5(SprintfList([i \in 1..Len(newMapArray) |->
                                   "{" \o newMapArray[i][1] \o " "
                                       \o SprintfV(newMapArray[i][2]) \o "}"]))
    ELSE SprintfV(arg)

\* MakePenetrateKey: funcName, then "_" and the text of each argument
RECURSIVE AppendArgs(_, _)
AppendArgs(retStr, inputValues) ==
    IF Len(inputValues) = 0 THEN retStr
    ELSE AppendArgs(retStr \o "_" \o ArgText(Head(inputValues)), Tail(inputValues))

MakePenetrateKey(funcName, inputValues) == AppendArgs(funcName, inputValues)

IdleCaller ==
    [pc |-> "idle", key |-> "", inputValues |-> <<>>, cacheMillis |-> 0,
     role |-> "none", rv |-> <<>>,
     retValues |-> <<>>, retValuesPtr |-> <<>>, timedOut |-> FALSE,
     called |-> FALSE, overlap |-> FALSE, arrived |-> FALSE, ncalls |-> 0,
     hung |-> FALSE, panicked |-> FALSE, lastTimedOut |-> <<>>,
     completed |-> <<>>, afterExpiry |-> FALSE]

SFInit ==
    /\ antiPanetrateMap = [k \in {} |-> <<>>]
    /\ gc = [k \in {} |-> <<>>]
    /\ wv = [r \in {} |-> <<>>]
    /\ sf = [p \in Callers |-> IdleCaller]
    /\ calleeRet = [r \in {} |-> <<>>]
    /\ sfNow = 0

\* the state left by a call for "x" whose callee blocks for good and by a
\* second call for "x" that waited for it and timed out
SFStuckInit ==
    /\ antiPanetrateMap = (MakePenetrateKey("f", <<StrV("x")>>) :> <<1, 0>>)
    /\ gc = [k \in {} |-> <<>>]
    /\ wv = (<<1, 0>> :> [WaitGroup |-> 1, Value |-> <<>>])
    /\ sf = [p \in Callers |->
                IF p = 1
                THEN [IdleCaller EXCEPT !.pc = "calling", !.role = "leader",
                                        !.key = MakePenetrateKey("f", <<StrV("x")>>),
                                        !.inputValues = <<StrV("x")>>,
                                        !.rv = <<1, 0>>, !.called = TRUE,
                                        !.hung = TRUE]
                ELSE IF p = 2
                THEN [IdleCaller EXCEPT !.role = "waiter", !.timedOut = TRUE,
                                        !.key = MakePenetrateKey("f", <<StrV("x")>>),
                                        !.inputValues = <<StrV("x")>>,
                                        !.rv = <<1, 0>>, !.arrived = TRUE]
                ELSE IdleCaller]
    /\ calleeRet = [r \in {} |-> <<>>]
    /\ sfNow = 0

\* the state left at time 0 by a call for "x" with cacheMillis = 500
SFMemoInit ==
    /\ antiPanetrateMap = [k \in {} |-> <<>>]
    /\ gc = (MakePenetrateKey("f", <<StrV("x")>>) :>
                [Value |-> <<1, 0>>, expire |-> 600, setAt |-> 0, cacheMillis |-> 500])
    /\ wv = (<<1, 0>> :> [WaitGroup |-> 0, Value |-> <<"0", "nil">>])
    /\ sf = [p \in Callers |-> IdleCaller]
    /\ calleeRet = (<<1, 0>> :> <<"0", "nil">>)
    /\ sfNow = 0

\* the mark left in the history by a callee that panicked
PanicMark == <<"panic">>

CalleePanicked(r) == r \in DOMAIN calleeRet /\ calleeRet[r] = PanicMark

\* some call for fingerprint key is executing the callee
CalleeRunning(key) == \E q \in Callers : sf[q].pc = "calling" /\ sf[q].key = key

\* a faulty variant: a memo whose entries live for cacheMillis only
ExpireAtCacheMillis(now, cacheMillis) == now + cacheMillis

\* gc.SetWithExpire(key, value, cacheMillis+100 ms): the moment of expiry
ExpireAt(now, cacheMillis) == now + cacheMillis + 100

\* gcache: an item is expired once its expiration lies before now
IsExpired(item, now) == item.expire < now

\* gc.Get(key) returns err == nil
MemoHit(key) == key \in DOMAIN gc /\ ~IsExpired(gc[key], sfNow)

\* the rendezvous in flight for key whose callee has already returned
CompletedInFlight(key) ==
    IF /\ key \in DOMAIN antiPanetrateMap
       /\ antiPanetrateMap[key] \in DOMAIN calleeRet
       /\ ~CalleePanicked(antiPanetrateMap[key])
    THEN antiPanetrateMap[key]
    ELSE <<>>

\* the memo entry of key is older than the cacheMillis + 100 ms it was given
MemoOutlived(key) ==
    /\ key \in DOMAIN gc
    /\ sfNow > gc[key].setAt + gc[key].cacheMillis + 100

\* the calls made so far, by all goroutines
RECURSIVE CallsMade(_)
CallsMade(n) == IF n = 0 THEN 0 ELSE sf[n].ncalls + CallsMade(n - 1)

\* a goroutine enters AntiPenetrateWithCache and computes the fingerprint
\* (the goroutines are numbered in the order of their first call)
SFCall(p, inputValues, cacheMillis) ==
    /\ sf[p].pc = "idle"
    /\ CallsMade(NumCallers) < MaxCalls
    /\ \A q \in 1..(p - 1) : sf[q].ncalls > 0 \/ sf[q].role # "none"
    /\ LET key == MakePenetrateKey("f", inputValues) IN
       sf' = [sf EXCEPT ![p] =
                [IdleCaller EXCEPT !.pc = "memo", !.key = key,
                                   !.inputValues = inputValues,
                                   !.cacheMillis = cacheMillis,
                                   !.ncalls = sf[p].ncalls + 1,
                                   !.overlap = CalleeRunning(key) /\ ~MemoHit(key),
                                   !.lastTimedOut =
                                       IF sf[p].timedOut THEN sf[p].rv ELSE <<>>,
                                   !.completed = CompletedInFlight(key),
                                   !.afterExpiry = MemoOutlived(key)]]
    /\ UNCHANGED <<antiPanetrateMap, gc, wv, calleeRet, sfNow>>

\* gc.Get(key): a memo hit returns the memoized values
SFMemoCheck(p) ==
    /\ sf[p].pc = "memo"
    /\ IF MemoHit(sf[p].key)
       THEN sf' = [sf EXCEPT ![p].pc = "idle", ![p].role = "memo",
                             ![p].rv = gc[sf[p].key].Value,
                             ![p].retValuesPtr = wv[gc[sf[p].key].Value].Value]
       ELSE sf' = [sf EXCEPT ![p].pc = "los"]
    /\ UNCHANGED <<antiPanetrateMap, gc, wv, calleeRet, sfNow>>

\* a faulty variant: a load-or-store that always stores
LoadOrStoreNeverLoads(key) == FALSE

\* sync.Map.LoadOrStore reports loaded when the key is present
LoadOrStoreLoaded(key) == key \in DOMAIN antiPanetrateMap

\* antiPanetrateMap.LoadOrStore(key, wrappedValue): waiter when loaded, else
\* leader, who goes on to call the proxied function
SFLoadOrStore(p) ==
    /\ sf[p].pc = "los"
    /\ LET key == sf[p].key
           present == key \in DOMAIN antiPanetrateMap
           fresh == <<p, sf[p].ncalls>> IN
       IF LoadOrStoreLoaded(key)
       THEN /\ sf' = [sf EXCEPT ![p].pc = "wait", ![p].role = "waiter",
                                ![p].rv = antiPanetrateMap[key],
                                ![p].arrived = present]
            /\ UNCHANGED <<antiPanetrateMap, wv>>
       ELSE /\ wv' = MapPut(wv, fresh, [WaitGroup |-> 1, Value |-> <<>>])
            /\ antiPanetrateMap' = MapPut(antiPanetrateMap, key, fresh)
            /\ sf' = [sf EXCEPT ![p].pc = "calling", ![p].role = "leader",
                                ![p].rv = fresh, ![p].called = TRUE,
                                ![p].arrived = present]
    /\ UNCHANGED <<gc, calleeRet, sfNow>>

CalleeValue == ConvertNumberToString(Cardinality(DOMAIN calleeRet) + 1)

\* funcValue.Call returns to the leader
SFCalleeReturns(p, v) ==
    /\ sf[p].pc = "calling"
    /\ ~sf[p].hung
    /\ v = CalleeValue
    /\ sf' = [sf EXCEPT ![p].pc = "store", ![p].retValues = <<v, "nil">>]
    /\ calleeRet' = MapPut(calleeRet, sf[p].rv, <<v, "nil">>)
    /\ UNCHANGED <<antiPanetrateMap, gc, wv, sfNow>>

\* funcValue.Call never returns: the proxied function blocks for good
SFCalleeHangs(p) ==
    /\ sf[p].pc = "calling"
    /\ ~sf[p].hung
    /\ sf' = [sf EXCEPT ![p].hung = TRUE]
    /\ UNCHANGED <<antiPanetrateMap, gc, wv, calleeRet, sfNow>>

\* funcValue.Call panics: the call unwinds through the deferred
\* WaitGroup.Done, and nothing after the call is executed
SFCalleePanics(p) ==
    /\ sf[p].pc = "calling"
    /\ ~sf[p].hung
    /\ wv' = [wv EXCEPT ![sf[p].rv].WaitGroup = 0]
    /\ sf' = [sf EXCEPT ![p].pc = "idle", ![p].panicked = TRUE]
    /\ calleeRet' = MapPut(calleeRet, sf[p].rv, PanicMark)
    /\ UNCHANGED <<antiPanetrateMap, gc, sfNow>>

\* one turn of the loop that appends the return values to the shared slot
SFStoreResult(p) ==
    /\ sf[p].pc = "store"
    /\ LET r == sf[p].rv
           n == Len(wv[r].Value) IN
       /\ wv' = [wv EXCEPT ![r].Value = Append(@, sf[p].retValues[n + 1])]
       /\ sf' = [sf EXCEPT ![p].pc =
                    IF n + 1 = Len(sf[p].retValues) THEN "delete" ELSE "store"]
    /\ UNCHANGED <<antiPanetrateMap, gc, calleeRet, sfNow>>

\* a faulty variant: a Delete that leaves the entry in place
DeleteSkipped(m, key) == m

\* sync.Map.Delete(key)
Delete(m, key) == MapDelete(m, key)

\* antiPanetrateMap.Delete(key)
SFDelete(p) ==
    /\ sf[p].pc = "delete"
    /\ antiPanetrateMap' = Delete(antiPanetrateMap, sf[p].key)
    /\ sf' = [sf EXCEPT ![p].pc =
                 IF sf[p].cacheMillis > 0 THEN "setmemo" ELSE "return"]
    /\ UNCHANGED <<gc, wv, calleeRet, sfNow>>

\* gc.SetWithExpire(key, Value, cacheMillis+100)
SFSetMemo(p) ==
    /\ sf[p].pc = "setmemo"
    /\ gc' = MapPut(gc, sf[p].key,
                    [Value |-> sf[p].rv,
                     expire |-> ExpireAt(sfNow, sf[p].cacheMillis),
                     setAt |-> sfNow, cacheMillis |-> sf[p].cacheMillis])
    /\ sf' = [sf EXCEPT ![p].pc = "return"]
    /\ UNCHANGED <<antiPanetrateMap, wv, calleeRet, sfNow>>

\* the leader copies the slot and returns; the deferred WaitGroup.Done runs
SFLeaderReturn(p) ==
    /\ sf[p].pc = "return"
    /\ wv' = [wv EXCEPT ![sf[p].rv].WaitGroup = 0]
    /\ sf' = [sf EXCEPT ![p].pc = "idle",
                        ![p].retValuesPtr = wv[sf[p].rv].Value]
    /\ UNCHANGED <<antiPanetrateMap, gc, calleeRet, sfNow>>

\* a faulty variant: a wait that does not wait for Done
WaitReturnsAtOnce(r) == TRUE

\* wg.Wait() returns once the counter is zero
WaitReturns(r) == wv[r].WaitGroup = 0

\* the waiter's select takes <-wch
SFWaitDone(p) ==
    /\ sf[p].pc = "wait"
    /\ WaitReturns(sf[p].rv)
    /\ sf' = [sf EXCEPT ![p].pc = "idle",
                        ![p].retValuesPtr = wv[sf[p].rv].Value]
    /\ UNCHANGED <<antiPanetrateMap, gc, wv, calleeRet, sfNow>>

\* a faulty variant: a timer that never fires
TimeAfterNeverFires(p) == FALSE

\* the channel of time.After(timeoutMillis) becomes ready
TimeAfterFires(p) == TRUE

\* the waiter's select takes <-time.After(timeoutMillis)
SFWaitTimeout(p) ==
    /\ sf[p].pc = "wait"
    /\ TimeAfterFires(p)
    /\ sf' = [sf EXCEPT ![p].pc = "idle", ![p].timedOut = TRUE,
                        ![p].retValuesPtr = wv[sf[p].rv].Value]
    /\ UNCHANGED <<antiPanetrateMap, gc, wv, calleeRet, sfNow>>

\* a memo entry is dropped ahead of its expiry (the LRU evicts it)
SFMemoExpire(key) ==
    /\ key \in DOMAIN gc
    /\ gc' = MapDelete(gc, key)
    /\ UNCHANGED <<antiPanetrateMap, wv, sf, calleeRet, sfNow>>

\* time passes
SFTick(t) ==
    /\ t > sfNow
    /\ sfNow' = t
    /\ UNCHANGED <<antiPanetrateMap, gc, wv, sf, calleeRet>>

\* the steps of a call
SFSteps(p) ==
    \/ SFMemoCheck(p)
    \/ SFLoadOrStore(p)
    \/ \E v \in CalleeValues : SFCalleeReturns(p, v)
    \/ SFCalleeHangs(p)
    \/ SFCalleePanics(p)
    \/ SFStoreResult(p)
    \/ SFDelete(p)
    \/ SFSetMemo(p)
    \/ SFLeaderReturn(p)
    \/ SFWaitDone(p)
    \/ SFWaitTimeout(p)

\* the proxy with a memo whose entries may vanish at any moment
SFNext ==
    \/ \E p \in Callers, a \in InputValues, c \in CacheMillisValues : SFCall(p, a, c)
    \/ \E p \in Callers : SFSteps(p)
    \/ \E key \in DOMAIN gc : SFMemoExpire(key)

\* the proxy on the clock, called for one fingerprint
MemoNext ==
    \/ \E p \in Callers, c \in CacheMillisValues : SFCall(p, <<StrV("x")>>, c)
    \/ \E p \in Callers : SFSteps(p)
    \/ \E t \in SFTimes : SFTick(t)


(***************************************************************************)
(* The CacheDao: schema, keys and codec (package core).                    *)
(***************************************************************************)
\* the schema after Initialize of a CacheDao for
\*   type User struct { ID uint64; Name string }
\* with no user prefix and the annotations
\*   func=FindByName;type=concrete;keys=['Name'];args=[0]
\*   func=FindByNames;type=concrete;keys=['Name'];args=[0]
\*   func=ListByName;type=range;keys=['Name'];args=[1]
\* (all have the filter key V_User_Name: NotifyInfos holds the first only)
ObjectCachePrefix == "User"

VersionKeyPrefix == "V_" \o "User"

NotifyInfoFindByName ==
    [Type |-> "concrete", Fields |-> <<"Name">>, Args |-> <<0>>,
     VersionKeyPrefix |-> VersionKeyPrefix]

NotifyInfos == <<NotifyInfoFindByName>>

NotifyInfoListByName ==
    [Type |-> "range", Fields |-> <<"Name">>, Args |-> <<1>>,
     VersionKeyPrefix |-> VersionKeyPrefix]

MethodNotifyInfoMap ==
    [m \in {"FindByName", "FindByNames", "ListByName"} |->
        IF m = "ListByName" THEN NotifyInfoListByName ELSE NotifyInfoFindByName]

\* util.GetMetodParameterList of the SQLDao methods
\*   FindByName(name string), FindByNames(names []string, hints []string),
\*   ListByName(db *gorm.DB, name string)
GetMetodParameterList(methodName) ==
    IF methodName = "ListByName" THEN <<"gorm.io/gorm_DB", "_string">>
    ELSE IF methodName = "FindByNames" THEN <<"_", "_">>
    ELSE <<"_string">>

Names == {"a", "b"}

Records == [ID : 0..MaxId, Name : Names]

\* the value of a named field, as text (util.GetFieldStringValue)
GetFieldStringValue(obj, fieldName) ==
    IF fieldName = "Name" THEN obj.Name
    ELSE IF fieldName = "ID" THEN ConvertUNumberToString(obj.ID)
    ELSE ""

GetFieldsStringValues(obj, fieldNames) ==
    [i \in 1..Len(fieldNames) |-> GetFieldStringValue(obj, fieldNames[i])]

GetIdValue(obj) == obj.ID

MakeObjectKey(id, version) ==
    ObjectCachePrefix \o "_" \o ConvertUNumberToString(id) \o "_" \o version

MakeObjectVersionKey(id) ==
    "V_" \o ObjectCachePrefix \o "_" \o ConvertUNumberToString(id)

ResolveIdFromObjectVersionKey(versionKey) ==
    LET ps == SplitString(versionKey, "_") IN ConvertStringToUNumber(ps[Len(ps)])

ResolveIdFromObjectCacheKey(cacheKey) ==
    LET ps == SplitString(cacheKey, "_") IN ConvertStringToUNumber(ps[Len(ps) - 1])

MakeVersionKey(versionKeyPrefix, fieldStrValues) ==
    JoinStrings(<<versionKeyPrefix>> \o fieldStrValues, "_")

\* string arguments as the values of args ...interface{}
StrArgs(texts) == [i \in DOMAIN texts |-> StrV(texts[i])]

\* util.GeneralToString: a slice or a struct is digested as its "%v" text,
\* the elements of a slice in the order they have; the text of anything else
GeneralToString(val) ==
    IF Kind(val) = "slice"
    THEN GenMd5(SprintfList([i \in DOMAIN val[2] |-> SprintfV(val[2][i])]))
    ELSE IF Kind(val) = "struct" THEN GenMd5(SprintfV(val))
    ELSE SprintfV(val)

MakeMethodVersionKey(methodName, args) ==
    LET info == MethodNotifyInfoMap[methodName] IN
    MakeVersionKey(info.VersionKeyPrefix,
                   [i \in 1..Len(info.Args) |->
                       GeneralToString(args[info.Args[i] + 1])])

\* the parameters declared as gorm.DB are left out of the key
MakeKeyPrefix(methodName, args) ==
    LET argsName == GetMetodParameterList(methodName)
        kept == SelectSeq([i \in DOMAIN argsName |-> i],
                          LAMBDA i : argsName[i] # "gorm.io/gorm_DB")
    IN  JoinStrings(<<methodName>>
                        \o [j \in DOMAIN kept |-> GeneralToString(args[kept[j]])], "_")

MakeKey(keyPrefix, version) == keyPrefix \o "_" \o version

\* a faulty variant: a codec that drops the field Name
SerializeWithoutName(obj) == "{\"ID\":" \o ConvertUNumberToString(obj.ID) \o "}"

\* JSONSerializer.Serialize of a User
Serialize(obj) ==
    "{\"ID\":" \o ConvertUNumberToString(obj.ID)
        \o ",\"Name\":\"" \o obj.Name \o "\"}"

HasPrefix(s, prefix) ==
    Len(s) >= Len(prefix) /\ SubSeq(s, 1, Len(prefix)) = prefix

HasSuffix(s, suffix) ==
    Len(s) >= Len(suffix) /\ SubSeq(s, Len(s) - Len(suffix) + 1, Len(s)) = suffix

IsVersionKey(key) == HasPrefix(key, "V_")

\* the bytes a writer that was cut short left: a JSON text without its end
TruncatedBody(obj) == SubSeq(Serialize(obj), 1, Len(Serialize(obj)) - 2)

\* a faulty variant: a codec that yields the zero record instead of an error
DeserializeZeroOnError(bts) == <<[ID |-> 0, Name |-> ""]>>

\* JSONSerializer.Deserialize into a User: <<record>>, or <<>> on an error
Deserialize(bts) ==
    LET parts == SplitString(bts, ",") IN
    IF /\ Len(parts) = 2
       /\ HasPrefix(parts[1], "{\"ID\":")
       /\ AllDigits(SubSeq(parts[1], 7, Len(parts[1])))
       /\ HasPrefix(parts[2], "\"Name\":\"")
       /\ HasSuffix(parts[2], "\"}")
       /\ Len(parts[2]) >= 10
    THEN <<[ID |-> ParseDigits(SubSeq(parts[1], 7, Len(parts[1]))),
            Name |-> SubSeq(parts[2], 9, Len(parts[2]) - 2)]>>
    ELSE <<>>

(***************************************************************************)
(* The CacheDao: state.                                                    *)
(***************************************************************************)
VARIABLES
    kv,       \* the memcache server: key -> value
    db,       \* the data source: primary key -> Name of the row
    clock,    \* time.Now().UnixNano() / 1e6
    pr,       \* per goroutine: its position in a CacheDao operation and its locals
    hist,     \* history: per goroutine, its completed operations, newest first
    dead,     \* history: query-cache keys written before a NotifyModified
              \* for their field values that has returned
    warm      \* the goroutines started by "go base.SetOjectCaches(objList)"

kvVars == <<kv, db, clock, pr, hist, dead, warm>>

Procs == 1..NumProcs

IdleProc ==
    [pc |-> "idle", op |-> "", arg |-> <<>>, id |-> 0, obj |-> <<>>, now |-> 0,
     key |-> "", cont |-> "", qnow |-> 0, i |-> 0, sql |-> 0, seen |-> "",
     pre |-> {}, batch |-> <<>>]

\* the locals of a GetByIds call, and history: the lists it gave to the data
\* source, the calls that failed, the memcache server when it began
NewBatch(ids) ==
    [ids |-> ids, retIds |-> <<>>, absentIds |-> <<>>, list |-> <<>>, keys |-> <<>>,
     calls |-> <<>>, faults |-> {}, snap |-> kv]

\* the rows of the data source: rows 1..MaxId exist, with a Name each
InitialName(i) == IF i % 2 = 1 THEN "a" ELSE "b"

KVInit ==
    /\ kv = EmptyMap
    /\ db = [i \in 1..MaxId |-> InitialName(i)]
    /\ clock = 1
    /\ pr = [p \in Procs |-> IdleProc]
    /\ hist = [p \in Procs |-> <<>>]
    /\ dead = {}
    /\ warm = <<>>

\* the state a completed SetObjectCache of row 1 at time 1 leaves behind
KVWarmInit ==
    /\ kv = MapPut(MapPut(EmptyMap, MakeObjectKey(1, ConvertNumberToString(1)),
                          Serialize([ID |-> 1, Name |-> InitialName(1)])),
                   MakeObjectVersionKey(1), ConvertNumberToString(1))
    /\ db = [i \in 1..MaxId |-> InitialName(i)]
    /\ clock = 1
    /\ pr = [p \in Procs |-> IdleProc]
    /\ hist = [p \in Procs |-> <<>>]
    /\ dead = {}
    /\ warm = <<>>

\* the state in which the version of row 1 names a body that does not decode
KVCodecInit ==
    /\ kv = MapPut(MapPut(EmptyMap, MakeObjectKey(1, ConvertNumberToString(1)),
                          TruncatedBody([ID |-> 1, Name |-> InitialName(1)])),
                   MakeObjectVersionKey(1), ConvertNumberToString(1))
    /\ db = [i \in 1..MaxId |-> InitialName(i)]
    /\ clock = 1
    /\ pr = [p \in Procs |-> IdleProc]
    /\ hist = [p \in Procs |-> <<>>]
    /\ dead = {}
    /\ warm = <<>>

\* memcache Get: <<value>>, or <<>> for ErrCacheMiss
Get(key) == IF key \in DOMAIN kv THEN <<kv[key]>> ELSE <<>>

\* a faulty variant: every read of a version key misses
VersionNeverFound(versionKey) == ""

\* GetObjectVersion / GetVersion: "" when the version key is missed
VersionAt(versionKey) == IF versionKey \in DOMAIN kv THEN kv[versionKey] ELSE ""

\* the operations started so far, by all goroutines
RECURSIVE OpsStarted(_)
OpsStarted(n) ==
    IF n = 0 THEN 0
    ELSE Len(hist[n]) + (IF pr[n].pc = "idle" THEN 0 ELSE 1) + OpsStarted(n - 1)

\* goroutines are interchangeable: they are numbered in the order of their
\* first operation
Started(p) == pr[p].pc # "idle" \/ hist[p] # <<>>

CanStart(p) ==
    /\ pr[p].pc = "idle"
    /\ OpsStarted(NumProcs) < MaxOps
    /\ \A q \in Procs : q < p => Started(q)

\* history: the record of a completed operation (res: <<value>>, or <<>> for
\* nil; err: "" for nil; sql: the calls it made of the data source)
Completed(p, res, err, sql) ==
    [op |-> pr[p].op, arg |-> pr[p].arg, res |-> res, err |-> err, sql |-> sql]

\* history: the record of a completed GetByIds
CompletedBatch(p, res, err, calls) ==
    [op |-> pr[p].op, arg |-> pr[p].arg, res |-> res, err |-> err, sql |-> Len(calls),
     calls |-> calls, faults |-> pr[p].batch.faults, snap |-> pr[p].batch.snap]

\* an operation returns
Return(p, res, err) ==
    /\ pr' = [pr EXCEPT ![p] = IdleProc]
    /\ hist' = [hist EXCEPT ![p] =
                  <<Completed(p, res, err, pr[p].sql)>> \o @]

\* time passes
Tick ==
    /\ clock < MaxClock
    /\ clock' = clock + 1
    /\ UNCHANGED <<kv, db, pr, hist, dead, warm>>


(***************************************************************************)
(* The CacheDao: operations, one action per remote or data-source call.    *)
(***************************************************************************)

\* ---- SetObjectCache(obj): clock, body, version ----

\* now := time.Now().UnixNano() / 1e6
SetObjectCacheNow(p) ==
    /\ pr[p].pc = "soc_now"
    /\ pr' = [pr EXCEPT ![p].pc = "soc_body", ![p].now = clock,
                        ![p].id = GetIdValue(pr[p].obj[1]),
                        ![p].seen = VersionAt(MakeObjectVersionKey(GetIdValue(pr[p].obj[1])))]
    /\ UNCHANGED <<kv, db, clock, hist, dead, warm>>

\* a faulty variant: the version advertised before the body is stored
SetObjectCacheVersionFirst == <<"version", "body">>

\* the remote writes of SetObjectCache, in the order the code makes them
SetObjectCacheWrites == <<"body", "version">>

\* the memcache server after the n-th write of SetObjectCache(obj)
SetObjectCacheWrite(obj, now, n) ==
    IF SetObjectCacheWrites[n] = "body"
    THEN MapPut(kv, MakeObjectKey(GetIdValue(obj), ConvertNumberToString(now)),
                Serialize(obj))
    ELSE MapPut(kv, MakeObjectVersionKey(GetIdValue(obj)), ConvertNumberToString(now))

SetObjectCacheBody(p) ==
    /\ pr[p].pc = "soc_body"
    /\ kv' = SetObjectCacheWrite(pr[p].obj[1], pr[p].now, 1)
    /\ pr' = [pr EXCEPT ![p].pc = "soc_ver"]
    /\ UNCHANGED <<db, clock, hist, dead, warm>>

\* a faulty variant: the version is added, a version already stored is kept
SetObjectCacheVersionAdd(p) ==
    /\ pr[p].pc = "soc_ver"
    /\ kv' = IF MakeObjectVersionKey(GetIdValue(pr[p].obj[1])) \in DOMAIN kv THEN kv
             ELSE SetObjectCacheWrite(pr[p].obj[1], pr[p].now, 2)
    /\ IF pr[p].cont = "SetCache"
       THEN pr' = [pr EXCEPT ![p].pc = "sc_getver"] /\ UNCHANGED hist
       ELSE IF pr[p].cont = "GetById"
            THEN Return(p, pr[p].obj, "")
            ELSE Return(p, <<>>, "")
    /\ UNCHANGED <<db, clock, dead, warm>>

\* SetObjectVersion, and the return to the caller of SetObjectCache
SetObjectCacheVersion(p) ==
    /\ pr[p].pc = "soc_ver"
    /\ kv' = SetObjectCacheWrite(pr[p].obj[1], pr[p].now, 2)
    /\ IF pr[p].cont = "SetCache"
       THEN pr' = [pr EXCEPT ![p].pc = "sc_getver"] /\ UNCHANGED hist
       ELSE IF pr[p].cont = "GetById"
            THEN Return(p, pr[p].obj, "")
            ELSE Return(p, <<>>, "")
    /\ UNCHANGED <<db, clock, dead, warm>>

\* what a call of SetObjectCache that ends with the error err continues
\* with: SetCache and SetObjectCacheForGetById drop the error, a direct call
\* returns it
SetObjectCacheFailed(p, err) ==
    IF pr[p].cont = "SetCache"
    THEN pr' = [pr EXCEPT ![p].pc = "sc_getver"] /\ UNCHANGED hist
    ELSE IF pr[p].cont = "GetById"
         THEN Return(p, pr[p].obj, "")
         ELSE Return(p, <<>>, err)

\* MemcacheClient.Set of the body fails: SetObjectCache returns the error
SetObjectCacheBodyFails(p) ==
    /\ pr[p].pc = "soc_body"
    /\ SetObjectCacheFailed(p, "memcache: set body")
    /\ UNCHANGED <<kv, db, clock, dead, warm>>

\* MemcacheClient.Set of SetObjectVersion fails, after the body was stored
SetObjectCacheVersionFails(p) ==
    /\ pr[p].pc = "soc_ver"
    /\ SetObjectCacheFailed(p, "memcache: set version")
    /\ UNCHANGED <<kv, db, clock, dead, warm>>

\* a direct call of SetObjectCache
StartSetObjectCache(p, obj) ==
    /\ CanStart(p)
    /\ pr' = [pr EXCEPT ![p] =
                [IdleProc EXCEPT !.pc = "soc_now", !.op = "SetObjectCache",
                                 !.arg = <<obj>>, !.obj = <<obj>>]]
    /\ UNCHANGED <<kv, db, clock, hist, dead, warm>>

\* ---- GetById(id) ----

StartGetById(p, id) ==
    /\ CanStart(p)
    /\ pr' = [pr EXCEPT ![p] =
                [IdleProc EXCEPT !.pc = "gbi_ver", !.op = "GetById",
                                 !.arg = <<id>>, !.id = id]]
    /\ UNCHANGED <<kv, db, clock, hist, dead, warm>>

\* GetById of the record the goroutine has just given to SetObjectCache
StartGetByIdOfLast(p) ==
    /\ pr[p].pc = "idle"
    /\ hist[p] # <<>>
    /\ hist[p][1].op = "SetObjectCache"
    /\ pr' = [pr EXCEPT ![p] =
                [IdleProc EXCEPT !.pc = "gbi_ver", !.op = "GetById",
                                 !.arg = <<hist[p][1].arg[1].ID>>,
                                 !.id = hist[p][1].arg[1].ID]]
    /\ UNCHANGED <<kv, db, clock, hist, dead, warm>>

\* the id check, then GetObjectKey (GetObjectVersion)
GetByIdVersion(p) ==
    /\ pr[p].pc = "gbi_ver"
    /\ IF pr[p].id <= 0
       THEN Return(p, <<>>, "illegal id, should >= 0")
       ELSE LET version == VersionAt(MakeObjectVersionKey(pr[p].id)) IN
            /\ pr' = [pr EXCEPT ![p].pc = IF version = "" THEN "gbi_sql" ELSE "gbi_body",
                                ![p].key = IF version = "" THEN ""
                                           ELSE MakeObjectKey(pr[p].id, version)]
            /\ UNCHANGED hist
    /\ UNCHANGED <<kv, db, clock, dead, warm>>

\* MemcacheClient.Get(objCacheKey), then Deserialize
GetByIdBody(p) ==
    /\ pr[p].pc = "gbi_body"
    /\ LET item == Get(pr[p].key) IN
       IF item = <<>>
       THEN pr' = [pr EXCEPT ![p].pc = "gbi_sql"] /\ UNCHANGED hist
       ELSE IF Deserialize(item[1]) = <<>>
            THEN Return(p, <<>>, "deserialize")
            ELSE Return(p, Deserialize(item[1]), "")
    /\ UNCHANGED <<kv, db, clock, dead, warm>>

\* sqlGetById: the row, or nil for ErrRecordNotFound
SqlGetById(id) == IF id \in DOMAIN db THEN <<[ID |-> id, Name |-> db[id]]>> ELSE <<>>

\* SetObjectCacheForGetById up to its call of SetObjectCache
GetByIdSql(p) ==
    /\ pr[p].pc = "gbi_sql"
    /\ LET obj == SqlGetById(pr[p].id) IN
       IF obj = <<>>
       THEN /\ pr' = [pr EXCEPT ![p] = IdleProc]
            /\ hist' = [hist EXCEPT ![p] =
                          <<Completed(p, <<>>, "", pr[p].sql + 1)>> \o @]
       ELSE /\ pr' = [pr EXCEPT ![p].pc = "soc_now", ![p].obj = obj,
                                ![p].cont = "GetById", ![p].sql = @ + 1]
            /\ UNCHANGED hist
    /\ UNCHANGED <<kv, db, clock, dead, warm>>


\* ---- NotifyModified(curDo), called after the row was written ----

\* the query-cache keys now stored for the governing field values of obj
QueryKeysFor(obj) ==
    {k \in DOMAIN kv :
        HasPrefix(k, MakeKeyPrefix("FindByName",
                         StrArgs(GetFieldsStringValues(obj, NotifyInfoFindByName.Fields))) \o "_")}

\* the application writes the row and calls NotifyModified with it
StartNotifyModified(p, id, name) ==
    /\ CanStart(p)
    /\ id \in DOMAIN db
    /\ db' = [db EXCEPT ![id] = name]
    /\ LET curDo == [ID |-> id, Name |-> name] IN
       pr' = [pr EXCEPT ![p] =
                [IdleProc EXCEPT !.pc = "nm_ver", !.op = "NotifyModified",
                                 !.arg = <<curDo>>, !.obj = <<curDo>>,
                                 !.id = GetIdValue(curDo),
                                 !.pre = QueryKeysFor(curDo)]]
    /\ UNCHANGED <<kv, clock, hist, dead, warm>>

\* GetObjectKey(id)
NotifyModifiedVersion(p) ==
    /\ pr[p].pc = "nm_ver"
    /\ LET version == VersionAt(MakeObjectVersionKey(pr[p].id)) IN
       pr' = [pr EXCEPT ![p].pc = "nm_del",
                        ![p].key = IF version = "" THEN ""
                                   ELSE MakeObjectKey(pr[p].id, version)]
    /\ UNCHANGED <<kv, db, clock, hist, dead, warm>>

\* MemcacheClient.Delete(objectKey); its error is dropped
NotifyModifiedDelete(p) ==
    /\ pr[p].pc = "nm_del"
    /\ kv' = MapDelete(kv, pr[p].key)
    /\ pr' = [pr EXCEPT ![p].pc = "nm_now", ![p].i = 1]
    /\ UNCHANGED <<db, clock, hist, dead, warm>>

\* the version key of the i-th NotifyInfo for curDo
NotifyVersionKey(p) ==
    LET info == NotifyInfos[pr[p].i] IN
    MakeVersionKey(info.VersionKeyPrefix, GetFieldsStringValues(pr[p].obj[1], info.Fields))

\* a faulty variant: a token rounded up to the next millisecond
UpdateVersionAhead(now) == now + 1

\* the token UpdateVersion stores: the clock it reads
UpdateVersionToken(now) == now

\* UpdateVersion: now := time.Now().UnixNano() / 1e6
UpdateVersionNow(p) ==
    /\ pr[p].pc = "nm_now"
    /\ pr' = [pr EXCEPT ![p].pc = "nm_set", ![p].now = UpdateVersionToken(clock),
                        ![p].seen = VersionAt(NotifyVersionKey(p))]
    /\ UNCHANGED <<kv, db, clock, hist, dead, warm>>

\* UpdateVersion: MemcacheClient.Set(versionKey, now); then the next
\* NotifyInfo, or NotifyModified returns nil
UpdateVersionSet(p) ==
    /\ pr[p].pc = "nm_set"
    /\ kv' = MapPut(kv, NotifyVersionKey(p), ConvertNumberToString(pr[p].now))
    /\ IF pr[p].i < Len(NotifyInfos)
       THEN /\ pr' = [pr EXCEPT ![p].pc = "nm_now", ![p].i = @ + 1]
            /\ UNCHANGED <<hist, dead>>
       ELSE /\ Return(p, <<>>, "")
            /\ dead' = dead \cup pr[p].pre
    /\ UNCHANGED <<db, clock, warm>>

\* UpdateVersion: MemcacheClient.Set returns an error (the server is out of
\* reach); NotifyModified logs it and goes on, and returns nil at the end
UpdateVersionSetFails(p) ==
    /\ pr[p].pc = "nm_set"
    /\ IF pr[p].i < Len(NotifyInfos)
       THEN /\ pr' = [pr EXCEPT ![p].pc = "nm_now", ![p].i = @ + 1]
            /\ UNCHANGED <<hist, dead>>
       ELSE /\ Return(p, <<>>, "")
            /\ dead' = dead \cup pr[p].pre
    /\ UNCHANGED <<kv, db, clock, warm>>

\* NotifyModified(nil): "if curDo == nil { return nil }", before any call of
\* the memcache client
Nil == <<>>

StartNotifyModifiedNil(p) ==
    /\ CanStart(p)
    /\ hist' = [hist EXCEPT ![p] =
                  <<[op |-> "NotifyModified", arg |-> <<Nil>>, res |-> <<>>,
                     err |-> "", sql |-> 0]>> \o @]
    /\ UNCHANGED <<kv, db, clock, pr, dead, warm>>

\* GetObjectKey returns an error (the Get of the version key failed):
\* NotifyModified logs it and goes on with objectKey = ""
NotifyModifiedVersionFails(p) ==
    /\ pr[p].pc = "nm_ver"
    /\ pr' = [pr EXCEPT ![p].pc = "nm_del", ![p].key = ""]
    /\ UNCHANGED <<kv, db, clock, hist, dead, warm>>

\* a faulty variant: the error of MemcacheClient.Delete ends NotifyModified
NotifyModifiedDeleteFatal(p) ==
    /\ pr[p].pc = "nm_del"
    /\ Return(p, <<>>, "memcache: delete")
    /\ UNCHANGED <<kv, db, clock, dead, warm>>

\* MemcacheClient.Delete(objectKey) returns an error: its return value is
\* not looked at, NotifyModified goes on to the version keys
NotifyModifiedDeleteFails(p) ==
    /\ pr[p].pc = "nm_del"
    /\ pr' = [pr EXCEPT ![p].pc = "nm_now", ![p].i = 1]
    /\ UNCHANGED <<kv, db, clock, hist, dead, warm>>

\* ---- GetByConcreteKey(name) through the data-access method FindByName ----

StartGetByConcreteKey(p, name) ==
    /\ CanStart(p)
    /\ pr' = [pr EXCEPT ![p] =
                [IdleProc EXCEPT !.pc = "gck_ver", !.op = "GetByConcreteKey",
                                 !.arg = <<name>>]]
    /\ UNCHANGED <<kv, db, clock, hist, dead, warm>>

\* GetKey: GetVersion, then MakeKey
GetByConcreteKeyVersion(p) ==
    /\ pr[p].pc = "gck_ver"
    /\ LET version == VersionAt(MakeMethodVersionKey("FindByName", StrArgs(pr[p].arg))) IN
       pr' = [pr EXCEPT ![p].pc = IF version = "" THEN "gck_sql" ELSE "gck_get",
                        ![p].key = IF version = "" THEN ""
                                   ELSE MakeKey(MakeKeyPrefix("FindByName", StrArgs(pr[p].arg)),
                                                version)]
    /\ UNCHANGED <<kv, db, clock, hist, dead, warm>>

\* MemcacheClient.Get(cacheKey); a hit goes on as GetById of the cached id
GetByConcreteKeyGet(p) ==
    /\ pr[p].pc = "gck_get"
    /\ LET item == Get(pr[p].key) IN
       IF item = <<>>
       THEN pr' = [pr EXCEPT ![p].pc = "gck_sql"]
       ELSE pr' = [pr EXCEPT ![p].pc = "gbi_ver",
                             ![p].id = ConvertStringToUNumber(item[1])]
    /\ UNCHANGED <<kv, db, clock, hist, dead, warm>>

\* the rows FindByName(name) may return
FindByName(name) == {i \in DOMAIN db : db[i] = name}

\* the data-access method is invoked; with no row its nil result makes
\* SetCache panic in GetIdValue
GetByConcreteKeySql(p) ==
    /\ pr[p].pc = "gck_sql"
    /\ IF FindByName(pr[p].arg[1]) = {}
       THEN /\ pr' = [pr EXCEPT ![p] = IdleProc]
            /\ hist' = [hist EXCEPT ![p] =
                          <<Completed(p, <<>>, "panic", pr[p].sql + 1)>> \o @]
       ELSE \E i \in FindByName(pr[p].arg[1]) :
              /\ pr' = [pr EXCEPT ![p].pc = "sc_now", ![p].sql = @ + 1,
                                  ![p].obj = <<[ID |-> i, Name |-> db[i]]>>]
              /\ UNCHANGED hist
    /\ UNCHANGED <<kv, db, clock, dead, warm>>

\* SetCache: now := time.Now().UnixNano() / 1e6, then SetObjectCache(obj)
SetCacheNow(p) ==
    /\ pr[p].pc = "sc_now"
    /\ pr' = [pr EXCEPT ![p].pc = "soc_now", ![p].qnow = clock,
                        ![p].cont = "SetCache"]
    /\ UNCHANGED <<kv, db, clock, hist, dead, warm>>

\* a faulty variant: the entry goes under the current timestamp whether or
\* not a version exists
SetCacheGetVersionIgnored(p) ==
    /\ pr[p].pc = "sc_getver"
    /\ pr' = [pr EXCEPT ![p].pc = "sc_set"]
    /\ UNCHANGED <<kv, db, clock, hist, dead, warm>>

\* SetCache: GetVersion; an existing version replaces now
SetCacheGetVersion(p) ==
    /\ pr[p].pc = "sc_getver"
    /\ LET oldVersion == VersionAt(MakeMethodVersionKey("FindByName", StrArgs(pr[p].arg))) IN
       pr' = [pr EXCEPT ![p].pc = "sc_set",
                        ![p].qnow = IF oldVersion # ""
                                    THEN ConvertStringToNumber(oldVersion) ELSE @]
    /\ UNCHANGED <<kv, db, clock, hist, dead, warm>>

SetCacheKey(p) ==
    MakeKey(MakeKeyPrefix("FindByName", StrArgs(pr[p].arg)), ConvertNumberToString(pr[p].qnow))

\* SetCache: MemcacheClient.Set(cacheKey, id)
SetCacheSet(p) ==
    /\ pr[p].pc = "sc_set"
    /\ kv' = MapPut(kv, SetCacheKey(p), ConvertUNumberToString(GetIdValue(pr[p].obj[1])))
    /\ pr' = [q \in Procs |->
                IF q = p THEN [pr[q] EXCEPT !.pc = "sc_add"]
                ELSE [pr[q] EXCEPT !.pre = @ \ {SetCacheKey(p)}]]
    /\ dead' = dead \ {SetCacheKey(p)}
    /\ UNCHANGED <<db, clock, hist, warm>>

\* SetCache: AddVersion (memcache Add: stored only when the key is absent,
\* ErrNotStored is no error), and GetByConcreteKey returns the object
SetCacheAddVersion(p) ==
    /\ pr[p].pc = "sc_add"
    /\ LET versionKey == MakeMethodVersionKey("FindByName", StrArgs(pr[p].arg)) IN
       kv' = IF versionKey \in DOMAIN kv THEN kv
             ELSE MapPut(kv, versionKey, ConvertNumberToString(pr[p].qnow))
    /\ Return(p, pr[p].obj, "")
    /\ UNCHANGED <<db, clock, dead, warm>>


\* ---- GetByIds(ids) ----

\* the elements of a sequence
Range(seq) == {seq[i] : i \in DOMAIN seq}

\* the orders in which the elements of a finite set can be listed
Orders(S) == {seq \in [1..Cardinality(S) -> S] : Range(seq) = S}

\* memcache GetMulti: the items of the keys that are stored
GetMulti(keys) == [k \in Range(keys) \cap DOMAIN kv |-> kv[k]]

\* GetObjectVersions: id -> version, for the version keys that are stored
GetObjectVersions(ids) ==
    LET val == GetMulti([i \in DOMAIN ids |-> MakeObjectVersionKey(ids[i])]) IN
    [id \in {ResolveIdFromObjectVersionKey(k) : k \in DOMAIN val} |->
        val[MakeObjectVersionKey(id)]]

\* GetObjectKeys: id -> object key, absent where the version is absent
GetObjectKeys(ids) ==
    LET versions == GetObjectVersions(ids) IN
    [id \in DOMAIN versions |-> MakeObjectKey(id, versions[id])]

\* the rows "id in ?" selects
SqlRows(ids) == {[ID |-> i, Name |-> db[i]] : i \in Range(ids) \cap DOMAIN db}

\* reorderByIds: index the list by id (a later record replaces an earlier one),
\* then one record per position of ids whose id is indexed
reorderByIds(ids, objList) ==
    LET Indexed(id) == \E i \in DOMAIN objList : GetIdValue(objList[i]) = id
        Last(id) == CHOOSE i \in DOMAIN objList :
                        /\ GetIdValue(objList[i]) = id
                        /\ \A j \in DOMAIN objList : GetIdValue(objList[j]) = id => j <= i
        found == SelectSeq(ids, Indexed)
    IN [i \in DOMAIN found |-> objList[Last(found[i])]]

\* "go base.SetOjectCaches(objList)"; a goroutine with an empty list does nothing
Go(objList) ==
    IF objList = <<>> THEN warm
    ELSE Append(warm, [objs |-> objList, pc |-> "now", now |-> 0])

StartGetByIds(p, ids) ==
    /\ CanStart(p)
    /\ pr' = [pr EXCEPT ![p] =
                [IdleProc EXCEPT !.pc = "gbs_vers", !.op = "GetByIds",
                                 !.arg = <<ids>>, !.batch = NewBatch(ids)]]
    /\ UNCHANGED <<kv, db, clock, hist, dead, warm>>

\* the ids without a version
VersionAbsent(ids, objCacheKeys) ==
    SelectSeq(ids, LAMBDA id : id \notin DOMAIN objCacheKeys)

\* the ids with a version
VersionPresent(ids, objCacheKeys) ==
    SelectSeq(ids, LAMBDA id : id \in DOMAIN objCacheKeys)

\* a GetByIds call returns: to the application, or to the operation that
\* called it, which goes on with the returned list and error
ReturnBatch(p, res, err, calls) ==
    IF pr[p].cont = ""
    THEN /\ pr' = [pr EXCEPT ![p] = IdleProc]
         /\ hist' = [hist EXCEPT ![p] = <<CompletedBatch(p, res, err, calls)>> \o @]
    ELSE /\ pr' = [pr EXCEPT ![p].pc = pr[p].cont, ![p].cont = "", ![p].obj = res,
                             ![p].seen = err, ![p].sql = @ + Len(calls)]
         /\ hist' = hist

\* a memcache or data-source call of GetByIds fails: on to the fallback
Fails(p, call, calls) ==
    pr' = [pr EXCEPT ![p].pc = "gbs_all", ![p].batch.faults = @ \cup {call},
                     ![p].batch.calls = calls]

\* the empty-list check, then GetObjectKeys(ids) and the split of ids
GetByIdsVersions(p) ==
    /\ pr[p].pc = "gbs_vers"
    /\ LET b == pr[p].batch IN
       IF Len(b.ids) <= 0
       THEN ReturnBatch(p, <<>>, "", b.calls)
       ELSE \/ Fails(p, "versions", b.calls) /\ UNCHANGED hist
            \/ LET objCacheKeys == GetObjectKeys(b.ids)
                   retIds == VersionPresent(b.ids, objCacheKeys)
               IN /\ pr' = [pr EXCEPT ![p].pc = "gbs_items",
                                      ![p].batch.absentIds = VersionAbsent(b.ids, objCacheKeys),
                                      ![p].batch.retIds = retIds,
                                      ![p].batch.keys =
                                          [i \in DOMAIN retIds |-> objCacheKeys[retIds[i]]]]
                  /\ UNCHANGED hist
    /\ UNCHANGED <<kv, db, clock, dead, warm>>

\* a faulty variant: ids whose body is missing are not refetched
NoBodyAbsent(retIds, objCacheItems) == <<>>

\* the ids with a version whose object entry is not among the items
BodyAbsent(retIds, objCacheItems) ==
    SelectSeq(retIds, LAMBDA id :
        id \notin {ResolveIdFromObjectCacheKey(k) : k \in DOMAIN objCacheItems})

\* GetMulti(keys), the deserialized hits in the order the map yields them,
\* and the ids still absent
GetByIdsItems(p) ==
    /\ pr[p].pc = "gbs_items"
    /\ LET b == pr[p].batch IN
       \/ Fails(p, "items", b.calls) /\ UNCHANGED hist
       \/ LET objCacheItems == GetMulti(b.keys)
              hits == UNION {Range(Deserialize(objCacheItems[k])) : k \in DOMAIN objCacheItems}
              absentIds == b.absentIds \o BodyAbsent(b.retIds, objCacheItems)
          IN \E retList \in Orders(hits) :
                IF Len(absentIds) > 0
                THEN /\ pr' = [pr EXCEPT ![p].pc = "gbs_sql", ![p].batch.list = retList,
                                         ![p].batch.absentIds = absentIds]
                     /\ UNCHANGED hist
                ELSE ReturnBatch(p, reorderByIds(b.ids, retList), "", b.calls)
    /\ UNCHANGED <<kv, db, clock, dead, warm>>

\* SetObjectCachesForGetByIds(absentIds), the concatenation and reorderByIds
GetByIdsSql(p) ==
    /\ pr[p].pc = "gbs_sql"
    /\ LET b == pr[p].batch IN
       \/ Fails(p, "sql", Append(b.calls, b.absentIds)) /\ UNCHANGED <<hist, warm>>
       \/ \E absentList \in Orders(SqlRows(b.absentIds)) :
             /\ warm' = Go(absentList)
             /\ ReturnBatch(p, reorderByIds(b.ids, b.list \o absentList), "",
                            Append(b.calls, b.absentIds))
    /\ UNCHANGED <<kv, db, clock, dead>>

\* after an error: return base.SetObjectCachesForGetByIds(ids)
GetByIdsAll(p) ==
    /\ pr[p].pc = "gbs_all"
    /\ LET b == pr[p].batch IN
       \/ ReturnBatch(p, <<>>, "sql", Append(b.calls, b.ids)) /\ UNCHANGED warm
       \/ \E objList \in Orders(SqlRows(b.ids)) :
             /\ warm' = Go(objList)
             /\ ReturnBatch(p, objList, "", Append(b.calls, b.ids))
    /\ UNCHANGED <<kv, db, clock, dead>>

\* ---- GetByList(db, name) through the data-access method ListByName ----

\* the first argument, by the name of its type: the gorm handle, or a text
Handles == {"gorm.io/gorm_DB", "_string"}

\* dbArgCheck: the error it returns, "" for nil
dbArgCheck(args) ==
    IF Len(args) <= 0 THEN "args should contains 'gorm.DB' at least"
    ELSE IF args[1] # "gorm.io/gorm_DB" THEN "first arg must be 'gorm.DB' at least"
    ELSE ""

\* json.Unmarshal into a slice: the texts of the elements of "[e1,e2,...]";
\* for a text that is no JSON array, one empty text, which no element is
UnmarshalElements(val) ==
    IF Len(val) >= 2 /\ HasPrefix(val, "[") /\ HasSuffix(val, "]")
    THEN IF Len(val) = 2 THEN <<>> ELSE SplitString(SubSeq(val, 2, Len(val) - 1), ",")
    ELSE <<"">>

\* json.Marshal(&ids)
MarshalIds(ids) ==
    "[" \o JoinStrings([i \in DOMAIN ids |-> ConvertUNumberToString(ids[i])], ",") \o "]"

\* json.Unmarshal(value, &ids): <<ids>>, or <<>> on an error
UnmarshalIds(value) ==
    LET elems == UnmarshalElements(value) IN
    IF \E i \in DOMAIN elems : ~AllDigits(elems[i]) THEN <<>>
    ELSE <<[i \in DOMAIN elems |-> ParseDigits(elems[i])]>>

\* history: the record of a completed GetByList (calls: the argument tuples
\* given to the SQL dao method; faults: the memcache and data-source calls of
\* GetByIds that failed)
CompletedList(p, res, err, calls, faults) ==
    [op |-> pr[p].op, arg |-> pr[p].arg, res |-> res, err |-> err, sql |-> pr[p].sql,
     calls |-> calls, faults |-> faults]

\* a GetByList call returns
ReturnList(p, res, err, calls, faults) ==
    /\ pr' = [pr EXCEPT ![p] = IdleProc]
    /\ hist' = [hist EXCEPT ![p] = <<CompletedList(p, res, err, calls, faults)>> \o @]

StartGetByList(p, handle, name) ==
    /\ CanStart(p)
    /\ pr' = [pr EXCEPT ![p] =
                [IdleProc EXCEPT !.pc = "gbl_ver", !.op = "GetByList",
                                 !.arg = <<handle, name>>]]
    /\ UNCHANGED <<kv, db, clock, hist, dead, warm>>

\* GetKey(sqlMethodName, args): "" when the version key is missed
GetByListVersion(p) ==
    /\ pr[p].pc = "gbl_ver"
    /\ LET version == VersionAt(MakeMethodVersionKey("ListByName", StrArgs(pr[p].arg))) IN
       pr' = [pr EXCEPT ![p].pc = IF version = "" THEN "slc_check" ELSE "gbl_get",
                        ![p].key = IF version = "" THEN ""
                                   ELSE MakeKey(MakeKeyPrefix("ListByName", StrArgs(pr[p].arg)),
                                                version)]
    /\ UNCHANGED <<kv, db, clock, hist, dead, warm>>

\* MemcacheClient.Get(cacheKey); on a hit the ids are decoded and GetByIds(ids)
\* begins
GetByListGet(p) ==
    /\ pr[p].pc = "gbl_get"
    /\ LET item == Get(pr[p].key) IN
       IF item = <<>>
       THEN pr' = [pr EXCEPT ![p].pc = "slc_check"] /\ UNCHANGED hist
       ELSE IF UnmarshalIds(item[1]) = <<>>
       THEN ReturnList(p, <<>>, "unmarshal", <<>>, {})
       ELSE /\ pr' = [pr EXCEPT ![p].pc = "gbs_vers", ![p].cont = "gbl_ret",
                                ![p].batch = NewBatch(UnmarshalIds(item[1])[1])]
            /\ UNCHANGED hist
    /\ UNCHANGED <<kv, db, clock, dead, warm>>

\* return base.GetByIds(ids)
GetByListReturn(p) ==
    /\ pr[p].pc = "gbl_ret"
    /\ ReturnList(p, IF pr[p].seen = "" THEN <<pr[p].obj>> ELSE <<>>, pr[p].seen, <<>>,
                  pr[p].batch.faults)
    /\ UNCHANGED <<kv, db, clock, dead, warm>>

\* SetListCache: dbArgCheck(args); on its error SetListCache returns nil and
\* the error, which GetByList logs before it returns objList, nil
SetListCacheCheck(p) ==
    /\ pr[p].pc = "slc_check"
    /\ IF dbArgCheck(pr[p].arg) # ""
       THEN ReturnList(p, <<>>, "", <<>>, {})
       ELSE pr' = [pr EXCEPT ![p].pc = "slc_sql"] /\ UNCHANGED hist
    /\ UNCHANGED <<kv, db, clock, dead, warm>>

\* the rows ListByName(db, name) selects
ListByName(name) == {[ID |-> i, Name |-> db[i]] : i \in {j \in DOMAIN db : db[j] = name}}

\* SetListCache: the data-access method with Select(ID), GetIdsValue, and
\* GetByIds(ids) begins
SetListCacheSql(p) ==
    /\ pr[p].pc = "slc_sql"
    /\ \E objs \in Orders(ListByName(pr[p].arg[2])) :
          pr' = [pr EXCEPT ![p].pc = "gbs_vers", ![p].cont = "slc_now",
                           ![p].sql = @ + 1,
                           ![p].batch = NewBatch([i \in DOMAIN objs |-> GetIdValue(objs[i])])]
    /\ UNCHANGED <<kv, db, clock, hist, dead, warm>>

\* SetListCache after GetByIds: its error ends SetListCache, and GetByList
\* returns objList, nil; else now := time.Now().UnixNano() / 1e6
SetListCacheNow(p) ==
    /\ pr[p].pc = "slc_now"
    /\ IF pr[p].seen # ""
       THEN ReturnList(p, <<>>, "", <<pr[p].arg>>, pr[p].batch.faults)
       ELSE pr' = [pr EXCEPT ![p].pc = "slc_getver", ![p].qnow = clock] /\ UNCHANGED hist
    /\ UNCHANGED <<kv, db, clock, dead, warm>>

\* SetListCache: GetVersion; an existing version replaces now
SetListCacheGetVersion(p) ==
    /\ pr[p].pc = "slc_getver"
    /\ LET oldVersion == VersionAt(MakeMethodVersionKey("ListByName", StrArgs(pr[p].arg))) IN
       pr' = [pr EXCEPT ![p].pc = "slc_set",
                        ![p].qnow = IF oldVersion # ""
                                    THEN ConvertStringToNumber(oldVersion) ELSE @]
    /\ UNCHANGED <<kv, db, clock, hist, dead, warm>>

\* SetListCache: MemcacheClient.Set(cacheKey, idsJSON)
SetListCacheSet(p) ==
    /\ pr[p].pc = "slc_set"
    /\ kv' = MapPut(kv, MakeKey(MakeKeyPrefix("ListByName", StrArgs(pr[p].arg)),
                                ConvertNumberToString(pr[p].qnow)),
                    MarshalIds(pr[p].batch.ids))
    /\ pr' = [pr EXCEPT ![p].pc = "slc_add"]
    /\ UNCHANGED <<db, clock, hist, dead, warm>>

\* SetListCache: AddVersion, and GetByList returns the list
SetListCacheAddVersion(p) ==
    /\ pr[p].pc = "slc_add"
    /\ LET versionKey == MakeMethodVersionKey("ListByName", StrArgs(pr[p].arg)) IN
       kv' = IF versionKey \in DOMAIN kv THEN kv
             ELSE MapPut(kv, versionKey, ConvertNumberToString(pr[p].qnow))
    /\ ReturnList(p, <<pr[p].obj>>, "", <<pr[p].arg>>, pr[p].batch.faults)
    /\ UNCHANGED <<db, clock, dead, warm>>

\* the cache a GetByList(db, "a") that missed at time 1 leaves behind, once
\* the goroutine started by its GetByIds has stored the row
ListWarmInit ==
    /\ kv = MapPut(MapPut(MapPut(MapPut(EmptyMap,
                MakeObjectKey(1, ConvertNumberToString(1)),
                Serialize([ID |-> 1, Name |-> InitialName(1)])),
                MakeObjectVersionKey(1), ConvertNumberToString(1)),
                MakeKey(MakeKeyPrefix("ListByName", StrArgs(<<"gorm.io/gorm_DB", InitialName(1)>>)),
                        ConvertNumberToString(1)), MarshalIds(<<1>>)),
                MakeMethodVersionKey("ListByName", StrArgs(<<"gorm.io/gorm_DB", InitialName(1)>>)),
                ConvertNumberToString(1))
    /\ db = [i \in 1..MaxId |-> InitialName(i)]
    /\ clock = 1
    /\ pr = [p \in Procs |-> IdleProc]
    /\ hist = [p \in Procs |-> <<>>]
    /\ dead = {}
    /\ warm = <<>>

\* ---- GetByConcreteKeys(names, hints) through FindByNames ----

\* the argument tuples: an argument is a slice of texts or one text, with
\* its reflect.Kind
KeysArgs ==
    LET lists(S) == UNION {[1..n -> S] : n \in 0..MaxListLen}
        values(S) == {[kind |-> "slice", val |-> l] : l \in lists(S)}
                        \cup {[kind |-> "string", val |-> <<t>>] : t \in S}
    IN  {<<names, hints>> : names \in values(Names), hints \in values({"h"})}

\* a faulty variant: every argument is taken for a list
RealTypeCheckAny(obj, kind) == TRUE

RealTypeCheck(obj, kind) == obj.kind = kind

GetListLength(obj) == IF obj.kind # "slice" THEN -1 ELSE Len(obj.val)

\* the indexes of the list arguments (from 1 here)
ListArgIndexs(args) ==
    SelectSeq([i \in DOMAIN args |-> i], LAMBDA i : RealTypeCheck(args[i], "slice"))

\* the loop that compares the list sizes, from the i-th list argument on:
\* <<lastLength>> at its end, <<>> when it returns the error
RECURSIVE ListLength(_, _, _)
ListLength(args, i, lastLength) ==
    IF i > Len(ListArgIndexs(args)) THEN <<lastLength>>
    ELSE LET currentLength == GetListLength(args[ListArgIndexs(args)[i]]) IN
         IF lastLength # -1 /\ lastLength # currentLength THEN <<>>
         ELSE ListLength(args, i + 1, currentLength)

\* paramArrays: the i-th element of every list with the other arguments
ParamArrays(args) ==
    [i \in 1..ListLength(args, 1, -1)[1] |->
        [j \in DOMAIN args |->
            IF RealTypeCheck(args[j], "slice") THEN args[j].val[i] ELSE args[j].val[1]]]

JoinArgs(methodName, args) ==
    LET argsName == GetMetodParameterList(methodName)
        kept == SelectSeq([i \in DOMAIN argsName |-> i],
                          LAMBDA i : argsName[i] # "gorm.io/gorm_DB")
    IN  JoinStrings([j \in DOMAIN kept |-> GeneralToString(args[kept[j]])], "_")

\* GetVersions: joined arguments -> version, for the version keys stored; a
\* version key shared by several tuples stands for the last of them
GetVersions(methodName, args) ==
    LET versionKey(i) == MakeMethodVersionKey(methodName, StrArgs(args[i]))
        last(k) == CHOOSE i \in DOMAIN args :
                      /\ versionKey(i) = k
                      /\ \A j \in DOMAIN args : versionKey(j) = k => j <= i
        items == GetMulti([i \in DOMAIN args |-> versionKey(i)])
    IN  [akey \in {JoinArgs(methodName, StrArgs(args[last(k)])) : k \in DOMAIN items} |->
            items[versionKey(CHOOSE i \in DOMAIN args :
                                JoinArgs(methodName, StrArgs(args[i])) = akey)]]

\* getParamMap: texts of the key arguments -> the last tuple that has them
getParamMap(args, notifyInfo) ==
    LET key(i) == JoinStrings([n \in DOMAIN notifyInfo.Args |->
                                  args[i][notifyInfo.Args[n] + 1]], "_")
        last(k) == CHOOSE i \in DOMAIN args :
                      key(i) = k /\ \A j \in DOMAIN args : key(j) = k => j <= i
    IN  [k \in {key(i) : i \in DOMAIN args} |-> args[last(k)]]

getObjMapKey(obj, notifyInfo) ==
    JoinStrings(GetFieldsStringValues(obj, notifyInfo.Fields), "_")

\* the rows FindByNames(names, hints) selects: those with one of the names
FindByNames(args) ==
    {[ID |-> i, Name |-> db[i]] : i \in {j \in DOMAIN db : db[j] \in Range(args[1].val)}}

\* "go func() { base.SetCaches(objs, sqlMethodName, paramArrays) }()": the
\* objects whose key fields match a tuple, each with its tuple
GoSetCaches(objs, paramArrays) ==
    LET notifyInfo == MethodNotifyInfoMap["FindByNames"]
        arrMap == getParamMap(paramArrays, notifyInfo)
        matched == SelectSeq(objs, LAMBDA o : getObjMapKey(o, notifyInfo) \in DOMAIN arrMap)
    IN  IF matched = <<>> THEN warm
        ELSE Append(warm,
                 [objs |-> [i \in DOMAIN matched |->
                              [obj |-> matched[i],
                               param |-> arrMap[getObjMapKey(matched[i], notifyInfo)]]],
                  pc |-> "sc_now", now |-> 0, qnow |-> 0])

\* history: the record of a completed GetByConcreteKeys (cached: the list
\* GetByIds gave; calls: the argument tuples given to the SQL dao method;
\* faults: the memcache calls that failed)
CompletedKeys(p, res, cached, calls, faults) ==
    [op |-> pr[p].op, arg |-> pr[p].arg, res |-> res, err |-> "",
     sql |-> pr[p].sql + Len(calls), cached |-> cached, calls |-> calls,
     faults |-> faults]

StartGetByConcreteKeys(p, args) ==
    /\ CanStart(p)
    /\ pr' = [pr EXCEPT ![p] =
                [IdleProc EXCEPT !.pc = "gcks_args", !.op = "GetByConcreteKeys",
                                 !.arg = args]]
    /\ UNCHANGED <<kv, db, clock, hist, dead, warm>>

\* the list arguments are found and their sizes compared
GetByConcreteKeysArgs(p) ==
    /\ pr[p].pc = "gcks_args"
    /\ IF Len(ListArgIndexs(pr[p].arg)) = 0
       THEN Return(p, <<>>, "There is no list arg in args")
       ELSE IF ListLength(pr[p].arg, 1, -1) = <<>>
       THEN Return(p, <<>>, "the length of list parameter is not equal")
       ELSE pr' = [pr EXCEPT ![p].pc = "gcks_vers"] /\ UNCHANGED hist
    /\ UNCHANGED <<kv, db, clock, dead, warm>>

\* GetVersions(sqlMethodName, paramArrays), and the cache keys of the tuples
\* that have a version
GetByConcreteKeysVersions(p) ==
    /\ pr[p].pc = "gcks_vers"
    /\ \/ pr' = [pr EXCEPT ![p].pc = "gcks_fall"]
       \/ LET paramArrays == ParamArrays(pr[p].arg)
              versionsMap == GetVersions("FindByNames", paramArrays)
              versioned == SelectSeq(paramArrays, LAMBDA a :
                               JoinArgs("FindByNames", StrArgs(a)) \in DOMAIN versionsMap)
          IN pr' = [pr EXCEPT ![p].pc = "gcks_get",
                              ![p].obj = [i \in DOMAIN versioned |->
                                  MakeKey(MakeKeyPrefix("FindByNames", StrArgs(versioned[i])),
                                          versionsMap[JoinArgs("FindByNames", StrArgs(versioned[i]))])]]
    /\ UNCHANGED <<kv, db, clock, hist, dead, warm>>

\* MemcacheClient.GetMulti(cacheKey); the ids in the order the map yields
\* them, and GetByIds(idArr) begins
GetByConcreteKeysGet(p) ==
    /\ pr[p].pc = "gcks_get"
    /\ \/ pr' = [pr EXCEPT ![p].pc = "gcks_fall"]
       \/ LET cacheItems == GetMulti(pr[p].obj) IN
          \E ks \in Orders(DOMAIN cacheItems) :
             pr' = [pr EXCEPT ![p].pc = "gbs_vers", ![p].cont = "gcks_objs",
                              ![p].batch = NewBatch([i \in DOMAIN ks |->
                                  ConvertStringToUNumber(cacheItems[ks[i]])])]
    /\ UNCHANGED <<kv, db, clock, hist, dead, warm>>

\* after GetByIds: with enough objects the list is returned; else the data
\* source is asked for the tuples no object matches, SetCaches starts in a
\* goroutine, and the rows are appended
GetByConcreteKeysObjs(p) ==
    /\ pr[p].pc = "gcks_objs"
    /\ LET paramArrays == ParamArrays(pr[p].arg)
           notifyInfo == MethodNotifyInfoMap["FindByNames"]
           arrMap == getParamMap(paramArrays, notifyInfo)
           objMap == {getObjMapKey(pr[p].obj[i], notifyInfo) : i \in DOMAIN pr[p].obj}
           absent == DOMAIN arrMap \ objMap
       IN IF pr[p].seen # ""
          THEN pr' = [pr EXCEPT ![p].pc = "gcks_fall"] /\ UNCHANGED <<hist, warm>>
          ELSE IF Len(pr[p].obj) >= Len(paramArrays) \/ absent = {}
          THEN /\ pr' = [pr EXCEPT ![p] = IdleProc]
               /\ hist' = [hist EXCEPT ![p] =
                             <<CompletedKeys(p, <<pr[p].obj>>, pr[p].obj, <<>>,
                                             pr[p].batch.faults)>> \o @]
               /\ UNCHANGED warm
          ELSE \E ks \in Orders(absent) :
                 LET absentParams ==
                         [j \in DOMAIN pr[p].arg |->
                             IF RealTypeCheck(pr[p].arg[j], "slice")
                             THEN [kind |-> "slice",
                                   val |-> [n \in DOMAIN ks |-> arrMap[ks[n]][j]]]
                             ELSE pr[p].arg[j]]
                 IN \E objs \in Orders(FindByNames(absentParams)) :
                       /\ warm' = GoSetCaches(objs, paramArrays)
                       /\ pr' = [pr EXCEPT ![p] = IdleProc]
                       /\ hist' = [hist EXCEPT ![p] =
                                     <<CompletedKeys(p, <<pr[p].obj \o objs>>, pr[p].obj,
                                                     <<absentParams>>,
                                                     pr[p].batch.faults)>> \o @]
    /\ UNCHANGED <<kv, db, clock, dead>>

\* after an error of GetVersions, GetMulti or GetByIds: the data source is
\* asked with the arguments as given, SetCaches starts in a goroutine
GetByConcreteKeysFallback(p) ==
    /\ pr[p].pc = "gcks_fall"
    /\ \E objs \in Orders(FindByNames(pr[p].arg)) :
          /\ warm' = GoSetCaches(objs, ParamArrays(pr[p].arg))
          /\ pr' = [pr EXCEPT ![p] = IdleProc]
          /\ hist' = [hist EXCEPT ![p] =
                        <<CompletedKeys(p, <<objs>>, <<>>, <<pr[p].arg>>, {"memcache"})>>
                            \o @]
    /\ UNCHANGED <<kv, db, clock, dead>>

\* SetCaches in its goroutine g: SetCache(obj, methodName, param...) of the
\* first remaining object, one clock reading or remote call at a time
SetCachesStep(g) ==
    /\ warm[g].pc \in {"sc_now", "sc_socnow", "sc_body", "sc_ver", "sc_getver",
                       "sc_set", "sc_add"}
    /\ warm[g].objs # <<>>
    /\ LET obj == Head(warm[g].objs).obj
           param == Head(warm[g].objs).param
           oldVersion == VersionAt(MakeMethodVersionKey("FindByNames", StrArgs(param)))
           cacheKey == MakeKey(MakeKeyPrefix("FindByNames", StrArgs(param)),
                               ConvertNumberToString(warm[g].qnow))
           versionKey == MakeMethodVersionKey("FindByNames", StrArgs(param))
       IN CASE warm[g].pc = "sc_now" ->
                 /\ warm' = [warm EXCEPT ![g].pc = "sc_socnow", ![g].qnow = clock]
                 /\ kv' = kv
            [] warm[g].pc = "sc_socnow" ->
                 /\ warm' = [warm EXCEPT ![g].pc = "sc_body", ![g].now = clock]
                 /\ kv' = kv
            [] warm[g].pc = "sc_body" ->
                 /\ warm' = [warm EXCEPT ![g].pc = "sc_ver"]
                 /\ kv' = SetObjectCacheWrite(obj, warm[g].now, 1)
            [] warm[g].pc = "sc_ver" ->
                 /\ warm' = [warm EXCEPT ![g].pc = "sc_getver"]
                 /\ kv' = SetObjectCacheWrite(obj, warm[g].now, 2)
            [] warm[g].pc = "sc_getver" ->
                 /\ warm' = [warm EXCEPT ![g].pc = "sc_set",
                                         ![g].qnow = IF oldVersion # ""
                                                     THEN ConvertStringToNumber(oldVersion)
                                                     ELSE @]
                 /\ kv' = kv
            [] warm[g].pc = "sc_set" ->
                 /\ warm' = [warm EXCEPT ![g].pc = "sc_add"]
                 /\ kv' = MapPut(kv, cacheKey, ConvertUNumberToString(GetIdValue(obj)))
            [] warm[g].pc = "sc_add" ->
                 /\ warm' = [warm EXCEPT ![g].pc = "sc_now", ![g].objs = Tail(@)]
                 /\ kv' = IF versionKey \in DOMAIN kv THEN kv
                          ELSE MapPut(kv, versionKey, ConvertNumberToString(warm[g].qnow))
    /\ UNCHANGED <<db, clock, pr, hist, dead>>

\* the cache after SetCaches has completed for the rows of cached, at time 1,
\* with the hint "h"
KeysInit ==
    /\ db = [i \in 1..MaxBatchId |-> InitialName(i)]
    /\ \E cached \in SUBSET (1..MaxBatchId) :
          kv = [k \in UNION {{MakeObjectVersionKey(i),
                              MakeObjectKey(i, ConvertNumberToString(1)),
                              MakeMethodVersionKey("FindByNames", StrArgs(<<InitialName(i), "h">>)),
                              MakeKey(MakeKeyPrefix("FindByNames", StrArgs(<<InitialName(i), "h">>)),
                                      ConvertNumberToString(1))} : i \in cached} |->
                  LET i == CHOOSE j \in cached :
                              k \in {MakeObjectVersionKey(j),
                                     MakeObjectKey(j, ConvertNumberToString(1)),
                                     MakeMethodVersionKey("FindByNames", StrArgs(<<InitialName(j), "h">>)),
                                     MakeKey(MakeKeyPrefix("FindByNames", StrArgs(<<InitialName(j), "h">>)),
                                             ConvertNumberToString(1))}
                  IN  IF k = MakeObjectKey(i, ConvertNumberToString(1))
                      THEN Serialize([ID |-> i, Name |-> InitialName(i)])
                      ELSE IF k = MakeKey(MakeKeyPrefix("FindByNames", StrArgs(<<InitialName(i), "h">>)),
                                          ConvertNumberToString(1))
                      THEN ConvertUNumberToString(i)
                      ELSE ConvertNumberToString(1)]
    /\ clock = 1
    /\ pr = [p \in Procs |-> IdleProc]
    /\ hist = [p \in Procs |-> <<>>]
    /\ dead = {}
    /\ warm = <<>>

\* the hints given with the names
Hints == {"h", "g"}

\* the argument tuples of the refill: a list of names and a list of hints
RefillArgs ==
    LET lists(S) == UNION {[1..n -> S] : n \in 0..MaxListLen} IN
    {<<[kind |-> "slice", val |-> names], [kind |-> "slice", val |-> hints]>> :
        names \in lists(Names), hints \in lists(Hints)}

\* the cache left by completed SetCache calls, at time 1 with the hint "h":
\* the rows of bodies have their object cached; entry gives for each name
\* the id its query entry holds (0: none). An entry can hold the id of a row
\* that does not have the name any more: SetCaches runs in a goroutine of
\* its own, after the call that read the row has returned, and stores the
\* entry under the version it then finds (SetCache), and NotifyModified
\* advances the version of the record it is given only
RefillInit ==
    /\ db = [i \in 1..MaxBatchId |-> InitialName(i)]
    /\ \E bodies \in SUBSET (1..MaxBatchId), entry \in [Names -> 0..MaxBatchId] :
          LET named == {n \in Names : entry[n] # 0}
              queryKey(n) == MakeKey(MakeKeyPrefix("FindByNames", StrArgs(<<n, "h">>)),
                                     ConvertNumberToString(1))
              objects == [k \in {MakeObjectVersionKey(i) : i \in bodies}
                                  \cup {MakeObjectKey(i, ConvertNumberToString(1)) :
                                           i \in bodies} |->
                            IF IsVersionKey(k) THEN ConvertNumberToString(1)
                            ELSE Serialize([ID |-> ResolveIdFromObjectCacheKey(k),
                                            Name |-> db[ResolveIdFromObjectCacheKey(k)]])]
              queries == [k \in {MakeMethodVersionKey("FindByNames", StrArgs(<<n, "h">>)) :
                                    n \in named}
                                  \cup {queryKey(n) : n \in named} |->
                            IF IsVersionKey(k) THEN ConvertNumberToString(1)
                            ELSE ConvertUNumberToString(
                                     entry[CHOOSE n \in named : queryKey(n) = k])]
          IN  kv = objects @@ queries
    /\ clock = 1
    /\ pr = [p \in Procs |-> IdleProc]
    /\ hist = [p \in Procs |-> <<>>]
    /\ dead = {}
    /\ warm = <<>>

\* ---- SetOjectCaches(objList), in its own goroutine g ----

SetOjectCachesNow(g) ==
    /\ warm[g].pc = "now"
    /\ warm[g].objs # <<>>
    /\ warm' = [warm EXCEPT ![g].pc = "body", ![g].now = clock]
    /\ UNCHANGED <<kv, db, clock, pr, hist, dead>>

SetOjectCachesBody(g) ==
    /\ warm[g].pc = "body"
    /\ kv' = SetObjectCacheWrite(Head(warm[g].objs), warm[g].now, 1)
    /\ warm' = [warm EXCEPT ![g].pc = "ver"]
    /\ UNCHANGED <<db, clock, pr, hist, dead>>

SetOjectCachesVersion(g) ==
    /\ warm[g].pc = "ver"
    /\ kv' = SetObjectCacheWrite(Head(warm[g].objs), warm[g].now, 2)
    /\ warm' = [warm EXCEPT ![g].pc = "now", ![g].objs = Tail(@)]
    /\ UNCHANGED <<db, clock, pr, hist, dead>>

\* ---- what completed calls leave in the cache of a row ----

CacheStates == {"cold", "versioned", "cached"}

\* per row: nothing; a version whose body NotifyModified deleted; a version
\* and its body, both written by SetObjectCache at time 1
IdsInit ==
    /\ db = [i \in 1..MaxBatchId |-> InitialName(i)]
    /\ \E st \in [1..MaxBatchId -> CacheStates] :
          kv = [k \in {MakeObjectVersionKey(i) : i \in {j \in DOMAIN st : st[j] # "cold"}}
                      \cup {MakeObjectKey(i, ConvertNumberToString(1)) :
                               i \in {j \in DOMAIN st : st[j] = "cached"}} |->
                   IF IsVersionKey(k) THEN ConvertNumberToString(1)
                   ELSE Serialize([ID |-> ResolveIdFromObjectCacheKey(k),
                                   Name |-> InitialName(ResolveIdFromObjectCacheKey(k))])]
    /\ clock = 1
    /\ pr = [p \in Procs |-> IdleProc]
    /\ hist = [p \in Procs |-> <<>>]
    /\ dead = {}
    /\ warm = <<>>

(***************************************************************************)
(* InitializeCache: the registry of CacheDao factories, and Initialize.    *)
(***************************************************************************)
VARIABLES
    boot      \* InitializeCache: its position, the CacheDaos of CacheDaoMap,
              \* those it has visited, and history: the error Initialize
              \* returned for each and the CacheDaos the application has read

bootVars == <<boot>>

Daos == 1..NumDaos

\* the Do types of the CacheDaos: their field names
DoTypes == {{"Id", "Name"}, {"ID", "Name"}, {"Name"}}

\* the notify annotations of a CacheDao's meta field
NotifyTags ==
    {"func=FindByName;type=concrete;keys=['Name'];args=[0]",
     "func=FindByName;type=concrete",
     "func=FindByName;type=concrete;keys=Name;args=[0]",
     "func=FindByName;type=concrete;keys=['Name'];args=[0,1]"}

\* the SQLDaos, by what reflection gets from GetReadDbSource: the handle, no
\* return value, or a panic of Call when the dao has no such method
SQLDaos == {<<"db">>, <<>>, PanicMark}

CacheDaos == [Do : DoTypes, notify : NotifyTags, SQLDao : SQLDaos]

\* tag.ConvertTagArrayToMap: the name=value parts of the tag, later ones first
ConvertTagArrayToMap(tagStr) ==
    LET tags == SplitString(tagStr, ";")
        params(i) == SplitString(tags[i], "=")
        named == {i \in DOMAIN tags : Len(params(i)) >= 2}
        last(k) == CHOOSE i \in named :
                      /\ params(i)[1] = k
                      /\ \A j \in named : params(j)[1] = k => j <= i
    IN  [k \in {params(i)[1] : i \in named} |-> params(last(k))[2]]

\* tag.ResolveNotifyTag: the error it returns, "" for nil
ResolveNotifyTag(notifyTag) ==
    LET tagMap == ConvertTagArrayToMap(notifyTag)
        value(k) == IF k \in DOMAIN tagMap THEN tagMap[k] ELSE ""
        keys == UnmarshalElements(value("keys"))
        args == UnmarshalElements(value("args"))
        quoted(e) == /\ Len(e) >= 2
                     /\ SubSeq(e, 1, 1) \in {"'", "\""}
                     /\ SubSeq(e, Len(e), Len(e)) \in {"'", "\""}
    IN  IF Cardinality(DOMAIN tagMap) < 3
        THEN "the count of tag parameter is not enough"
        ELSE IF \E i \in DOMAIN keys : ~quoted(keys[i]) THEN "json: keys"
        ELSE IF \E i \in DOMAIN args : ~AllDigits(args[i]) THEN "json: args"
        ELSE ""

\* tag.ResolveNotifyTag: the NotifyTag it returns with a nil error
NotifyTagOf(notifyTag) ==
    LET tagMap == ConvertTagArrayToMap(notifyTag)
        value(k) == IF k \in DOMAIN tagMap THEN tagMap[k] ELSE ""
        keys == UnmarshalElements(value("keys"))
        args == UnmarshalElements(value("args"))
    IN  [Func |-> value("func"), Type |-> value("type"),
         Keys |-> [i \in DOMAIN keys |-> SubSeq(keys[i], 2, Len(keys[i]) - 1)],
         Args |-> [i \in DOMAIN args |-> ConvertStringToNumber(args[i])]]

\* CacheDaoBase.Initialize: the NotifyInfos and the MethodNotifyInfoMap it
\* leaves in the CacheDao, whose struct has one meta field
InitializeNotifyInfos(dao) ==
    IF \/ "Id" \notin dao.Do /\ "ID" \notin dao.Do
       \/ ResolveNotifyTag(dao.notify) # ""
    THEN [NotifyInfos |-> <<>>, MethodNotifyInfoMap |-> <<>>]
    ELSE LET notify == NotifyTagOf(dao.notify)
             notifyInfo == [Type |-> notify.Type, Fields |-> notify.Keys,
                            Args |-> notify.Args,
                            VersionKeyPrefix |-> VersionKeyPrefix]
         IN  [NotifyInfos |-> <<notifyInfo>>,
              MethodNotifyInfoMap |-> (notify.Func :> notifyInfo)]

\* CacheDaoBase.Initialize: its return values, <<err>> with "" for nil, or
\* PanicMark
Initialize(dao) ==
    IF "Id" \notin dao.Do /\ "ID" \notin dao.Do
    THEN <<"do object should contains 'Id' or 'ID' field that mapped to primary key">>
    ELSE IF ResolveNotifyTag(dao.notify) # "" THEN <<ResolveNotifyTag(dao.notify)>>
    ELSE IF dao.SQLDao = PanicMark THEN PanicMark
    ELSE IF Len(dao.SQLDao) = 0
         THEN <<"your sql dao should have method 'GetReadDbSource', which means you need extend 'BaseDao'">>
    ELSE <<"">>

\* Initialize reads nothing but the dao: each CacheDao with what it returns
InitializeReturns ==
    {<<dao, Initialize(dao), InitializeNotifyInfos(dao)>> : dao \in CacheDaos}

\* the program has registered its CacheDaos; InitializeCache has not run
BootInit ==
    \E daos \in [Daos -> CacheDaos] :
        boot = [pc |-> "start", daos |-> daos, visited |-> {},
                errs |-> [d \in Daos |-> ""], served |-> {},
                schema |-> [d \in Daos |->
                               [NotifyInfos |-> <<>>, MethodNotifyInfoMap |-> <<>>]]]

\* the state after InitializeCache of well-formed CacheDaos
BootDone ==
    boot = [pc |-> "returned",
            daos |-> [d \in Daos |->
                        [Do |-> {"ID", "Name"},
                         notify |-> "func=FindByName;type=concrete;keys=['Name'];args=[0]",
                         SQLDao |-> <<"db">>]],
            visited |-> Daos, errs |-> [d \in Daos |-> ""], served |-> {},
            schema |-> [d \in Daos |->
                           [NotifyInfos |-> NotifyInfos,
                            MethodNotifyInfoMap |->
                                ("FindByName" :> NotifyInfoFindByName)]]]

\* InitializeCache: MemcacheClient = memcache.New(...)
InitializeCacheStart ==
    /\ boot.pc = "start"
    /\ boot' = [boot EXCEPT !.pc = "range"]

\* the ranging over CacheDaoMap, in the order of the map: Initialize of the
\* next CacheDao, its returned values dropped; a panic ends InitializeCache
InitializeCacheCall(d) ==
    /\ boot.pc = "range"
    /\ d \notin boot.visited
    /\ LET returns == CHOOSE r \in InitializeReturns : r[1] = boot.daos[d]
           ret == returns[2]
       IN  IF ret = PanicMark
           THEN boot' = [boot EXCEPT !.pc = "panicked", !.schema[d] = returns[3]]
           ELSE boot' = [boot EXCEPT !.visited = @ \cup {d}, !.errs[d] = ret[1],
                                     !.schema[d] = returns[3]]

\* InitializeCache returns
InitializeCacheReturn ==
    /\ boot.pc = "range"
    /\ boot.visited = Daos
    /\ boot' = [boot EXCEPT !.pc = "returned"]

\* after InitializeCache the application reads through a CacheDao
\* (GetById and the other reads look at no outcome of Initialize)
ServeRead(d) ==
    /\ boot.pc = "returned"
    /\ d \notin boot.served
    /\ boot' = [boot EXCEPT !.served = @ \cup {d}]

BootNext ==
    \/ InitializeCacheStart
    \/ \E d \in Daos : InitializeCacheCall(d)
    \/ InitializeCacheReturn
    \/ \E d \in Daos : ServeRead(d)

(***************************************************************************)
(* Specifications.                                                         *)
(***************************************************************************)
vars == <<sfVars, kvVars, bootVars>>

\* the single-flight proxy alone
InitSF == (SFInit \/ SFStuckInit) /\ KVInit /\ BootDone

SpecSF == InitSF /\ [][SFNext /\ UNCHANGED <<kvVars, bootVars>>]_vars

\* the timer of a waiting goroutine fires unless the wait ends before
SpecSFLive ==
    SpecSF /\ \A p \in Callers : WF_vars(SFWaitTimeout(p) /\ UNCHANGED <<kvVars, bootVars>>)

InitMemo == (SFInit \/ SFMemoInit) /\ KVInit /\ BootDone

SpecMemo == InitMemo /\ [][MemoNext /\ UNCHANGED <<kvVars, bootVars>>]_vars

\* the proxy called with one slice or one map: the elements and the map
\* keys include an int and a string with the same "%v" text
FingerElems == {IntV(1), StrV("1"), StrV("2")}

FingerKeys == {IntV(1), StrV("1")}

FingerMapValues == {StrV("a"), StrV("b")}

FingerSlices ==
    {<<"slice", s>> : s \in UNION {[1..n -> FingerElems] : n \in 0..MaxListLen}}

\* a map holds a key once; its entries come in any order
FingerMaps ==
    {<<"map", s>> :
        s \in {t \in UNION {[1..n -> FingerKeys \X FingerMapValues] :
                               n \in 0..MaxListLen} :
                  \A i, j \in DOMAIN t : i # j => t[i][1] # t[j][1]}}

FingerInputs == {<<a>> : a \in FingerSlices \cup FingerMaps}

FingerNext ==
    \/ \E p \in Callers, a \in FingerInputs, c \in CacheMillisValues : SFCall(p, a, c)
    \/ \E p \in Callers : SFSteps(p)
    \/ \E key \in DOMAIN gc : SFMemoExpire(key)

InitFinger == SFInit /\ KVInit /\ BootDone

SpecFinger == InitFinger /\ [][FingerNext /\ UNCHANGED <<kvVars, bootVars>>]_vars

\* the proxy called with two text arguments, which may hold the separator
SeparatorInputs ==
    {<<StrV("a_b"), StrV("c")>>, <<StrV("a"), StrV("b_c")>>, <<StrV("a"), StrV("b")>>}

SeparatorNext ==
    \/ \E p \in Callers, a \in SeparatorInputs, c \in CacheMillisValues : SFCall(p, a, c)
    \/ \E p \in Callers : SFSteps(p)
    \/ \E key \in DOMAIN gc : SFMemoExpire(key)

InitSeparator == SFInit /\ KVInit /\ BootDone

SpecSeparator ==
    InitSeparator /\ [][SeparatorNext /\ UNCHANGED <<kvVars, bootVars>>]_vars

\* the steps every CacheDao operation is made of
KVSteps(p) ==
    \/ SetObjectCacheNow(p)
    \/ SetObjectCacheBody(p)
    \/ SetObjectCacheVersion(p)
    \/ GetByIdVersion(p)
    \/ GetByIdBody(p)
    \/ GetByIdSql(p)

QuerySteps(p) ==
    \/ NotifyModifiedVersion(p)
    \/ NotifyModifiedDelete(p)
    \/ UpdateVersionNow(p)
    \/ UpdateVersionSet(p)
    \/ GetByConcreteKeyVersion(p)
    \/ GetByConcreteKeyGet(p)
    \/ GetByConcreteKeySql(p)
    \/ SetCacheNow(p)
    \/ SetCacheGetVersion(p)
    \/ SetCacheSet(p)
    \/ SetCacheAddVersion(p)

\* readers and writers of the object cache only: GetById and SetObjectCache
ObjNext ==
    \/ Tick
    \/ \E p \in Procs, id \in 0..(MaxId + 1) : StartGetById(p, id)
    \/ \E p \in Procs, obj \in Records : StartSetObjectCache(p, obj)
    \/ \E p \in Procs : KVSteps(p)

InitObj == SFInit /\ (KVInit \/ KVWarmInit) /\ BootDone

SpecObj == InitObj /\ [][ObjNext /\ UNCHANGED <<sfVars, bootVars>>]_vars

\* the writers of version tokens: SetObjectCache and, through
\* NotifyModified, UpdateVersion
VerSteps(p) ==
    \/ SetObjectCacheNow(p)
    \/ SetObjectCacheBody(p)
    \/ SetObjectCacheVersion(p)
    \/ NotifyModifiedVersion(p)
    \/ NotifyModifiedDelete(p)
    \/ UpdateVersionNow(p)
    \/ UpdateVersionSet(p)

VerNext ==
    \/ Tick
    \/ \E p \in Procs, obj \in Records : obj.ID \in DOMAIN db /\ StartSetObjectCache(p, obj)
    \/ \E p \in Procs, id \in 1..MaxId, name \in Names : StartNotifyModified(p, id, name)
    \/ \E p \in Procs : VerSteps(p)

InitVer == SFInit /\ (KVInit \/ KVWarmInit) /\ BootDone

SpecVer == InitVer /\ [][VerNext /\ UNCHANGED <<sfVars, bootVars>>]_vars

\* NotifyModified alone, with a memcache server that may refuse a Set
NotifyNext ==
    \/ Tick
    \/ \E p \in Procs, id \in 1..MaxId, name \in Names : StartNotifyModified(p, id, name)
    \/ \E p \in Procs : NotifyModifiedVersion(p)
    \/ \E p \in Procs : NotifyModifiedDelete(p)
    \/ \E p \in Procs : UpdateVersionNow(p)
    \/ \E p \in Procs : UpdateVersionSet(p)
    \/ \E p \in Procs : UpdateVersionSetFails(p)

SpecNotify == InitVer /\ [][NotifyNext /\ UNCHANGED <<sfVars, bootVars>>]_vars

\* the arguments of FindByNames given to the key builders as they are: a
\* slice of names and a slice of hints
KeyBuilderArgs ==
    {<<<<"slice", StrArgs(names)>>, <<"slice", StrArgs(<<hint>>)>>>> :
        names \in UNION {[1..n -> Names] : n \in 0..MaxListLen}, hint \in Hints}

\* a call of MakeKeyPrefix("FindByNames", names, hints)
CallMakeKeyPrefix(p, args) ==
    /\ CanStart(p)
    /\ hist' = [hist EXCEPT ![p] =
                  <<[op |-> "MakeKeyPrefix", arg |-> args,
                     res |-> <<MakeKeyPrefix("FindByNames", args)>>,
                     err |-> "", sql |-> 0]>> \o @]
    /\ UNCHANGED <<kv, db, clock, pr, dead, warm>>

\* a call of MakeMethodVersionKey("FindByNames", names, hints)
CallMakeMethodVersionKey(p, args) ==
    /\ CanStart(p)
    /\ hist' = [hist EXCEPT ![p] =
                  <<[op |-> "MakeMethodVersionKey", arg |-> args,
                     res |-> <<MakeMethodVersionKey("FindByNames", args)>>,
                     err |-> "", sql |-> 0]>> \o @]
    /\ UNCHANGED <<kv, db, clock, pr, dead, warm>>

KeyBuilderNext ==
    \/ \E p \in Procs, args \in KeyBuilderArgs : CallMakeKeyPrefix(p, args)
    \/ \E p \in Procs, args \in KeyBuilderArgs : CallMakeMethodVersionKey(p, args)

InitKeyBuilder == SFInit /\ KVInit /\ BootDone

SpecKeyBuilder ==
    InitKeyBuilder /\ [][KeyBuilderNext /\ UNCHANGED <<sfVars, bootVars>>]_vars

\* NotifyModified with a memcache server that may refuse the Get of the
\* object version and the Delete of the body, and NotifyModified(nil)
BestEffortNext ==
    \/ Tick
    \/ \E p \in Procs, id \in 1..MaxId, name \in Names : StartNotifyModified(p, id, name)
    \/ \E p \in Procs : StartNotifyModifiedNil(p)
    \/ \E p \in Procs : NotifyModifiedVersion(p)
    \/ \E p \in Procs : NotifyModifiedVersionFails(p)
    \/ \E p \in Procs : NotifyModifiedDelete(p)
    \/ \E p \in Procs : NotifyModifiedDeleteFails(p)
    \/ \E p \in Procs : UpdateVersionNow(p)
    \/ \E p \in Procs : UpdateVersionSet(p)

SpecBestEffort == InitVer /\ [][BestEffortNext /\ UNCHANGED <<sfVars, bootVars>>]_vars

\* the read paths and the invalidation of a CacheDao, run concurrently
KVNext ==
    \/ Tick
    \/ \E p \in Procs, id \in 0..(MaxId + 1) : StartGetById(p, id)
    \/ \E p \in Procs, id \in 1..MaxId, name \in Names : StartNotifyModified(p, id, name)
    \/ \E p \in Procs, name \in Names : StartGetByConcreteKey(p, name)
    \/ \E p \in Procs : KVSteps(p)
    \/ \E p \in Procs : QuerySteps(p)

InitKV == SFInit /\ (KVInit \/ KVWarmInit) /\ BootDone

SpecKV == InitKV /\ [][KVNext /\ UNCHANGED <<sfVars, bootVars>>]_vars

\* one goroutine alone (a quiescent system), all operations
SeqNext ==
    \/ Tick
    \/ \E id \in 0..(MaxId + 1) : StartGetById(1, id)
    \/ \E obj \in Records : StartSetObjectCache(1, obj)
    \/ \E id \in 1..MaxId, name \in Names : StartNotifyModified(1, id, name)
    \/ \E name \in Names : StartGetByConcreteKey(1, name)
    \/ KVSteps(1)
    \/ QuerySteps(1)

InitSeq == SFInit /\ KVInit /\ BootDone

\* one goroutine that warms the object cache and reads back what it warmed
WarmNext ==
    \/ Tick
    \/ \E obj \in Records : StartSetObjectCache(1, obj)
    \/ \E id \in 0..(MaxId + 1) : StartGetById(1, id)
    \/ StartGetByIdOfLast(1)
    \/ KVSteps(1)

SpecWarm == InitSeq /\ [][WarmNext /\ UNCHANGED <<sfVars, bootVars>>]_vars

\* the same goroutine with a memcache server that may refuse a Set of
\* SetObjectCache
SetFailsNext ==
    \/ WarmNext
    \/ SetObjectCacheBodyFails(1)
    \/ SetObjectCacheVersionFails(1)

SpecSetFails == InitSeq /\ [][SetFailsNext /\ UNCHANGED <<sfVars, bootVars>>]_vars

SpecSeq == InitSeq /\ [][SeqNext /\ UNCHANGED <<sfVars, bootVars>>]_vars

\* one goroutine on users whose Name may be the text of a number
NumeralNames == {"a", "1"}

KeySpaceNext ==
    \/ Tick
    \/ \E id \in 0..(MaxId + 1) : StartGetById(1, id)
    \/ \E id \in 0..MaxId, name \in NumeralNames :
          StartSetObjectCache(1, [ID |-> id, Name |-> name])
    \/ \E id \in 1..MaxId, name \in NumeralNames : StartNotifyModified(1, id, name)
    \/ \E name \in NumeralNames : StartGetByConcreteKey(1, name)
    \/ KVSteps(1)
    \/ QuerySteps(1)

SpecKeySpace == InitSeq /\ [][KeySpaceNext /\ UNCHANGED <<sfVars, bootVars>>]_vars

\* one goroutine alone, on a cache that holds a body written by another codec
InitCodec == SFInit /\ KVCodecInit /\ BootDone

SpecCodec == InitCodec /\ [][SeqNext /\ UNCHANGED <<sfVars, bootVars>>]_vars


\* one GetByConcreteKeys call on each state of the cache, and the goroutines
\* it starts
KeysNext ==
    \/ Tick
    \/ \E args \in KeysArgs : hist[1] = <<>> /\ StartGetByConcreteKeys(1, args)
    \/ GetByConcreteKeysArgs(1)
    \/ GetByConcreteKeysVersions(1)
    \/ GetByConcreteKeysGet(1)
    \/ GetByConcreteKeysObjs(1)
    \/ GetByConcreteKeysFallback(1)
    \/ GetByIdsVersions(1)
    \/ GetByIdsItems(1)
    \/ GetByIdsSql(1)
    \/ GetByIdsAll(1)
    \/ \E g \in DOMAIN warm : SetOjectCachesNow(g)
    \/ \E g \in DOMAIN warm : SetOjectCachesBody(g)
    \/ \E g \in DOMAIN warm : SetOjectCachesVersion(g)
    \/ \E g \in DOMAIN warm : SetCachesStep(g)

InitKeys == SFInit /\ KeysInit /\ BootDone

SpecKeys == InitKeys /\ [][KeysNext /\ UNCHANGED <<sfVars, bootVars>>]_vars

\* one GetByConcreteKeys call with lists of names and hints on each state of
\* the cache, and the goroutines it starts
RefillNext ==
    \/ Tick
    \/ \E args \in RefillArgs : hist[1] = <<>> /\ StartGetByConcreteKeys(1, args)
    \/ GetByConcreteKeysArgs(1)
    \/ GetByConcreteKeysVersions(1)
    \/ GetByConcreteKeysGet(1)
    \/ GetByConcreteKeysObjs(1)
    \/ GetByConcreteKeysFallback(1)
    \/ GetByIdsVersions(1)
    \/ GetByIdsItems(1)
    \/ GetByIdsSql(1)
    \/ GetByIdsAll(1)
    \/ \E g \in DOMAIN warm : SetOjectCachesNow(g)
    \/ \E g \in DOMAIN warm : SetOjectCachesBody(g)
    \/ \E g \in DOMAIN warm : SetOjectCachesVersion(g)
    \/ \E g \in DOMAIN warm : SetCachesStep(g)

InitRefill == SFInit /\ RefillInit /\ BootDone

SpecRefill == InitRefill /\ [][RefillNext /\ UNCHANGED <<sfVars, bootVars>>]_vars

\* one goroutine alone calls GetByList; the goroutines GetByIds starts
ListNext ==
    \/ Tick
    \/ \E handle \in Handles, name \in Names : StartGetByList(1, handle, name)
    \/ GetByListVersion(1)
    \/ GetByListGet(1)
    \/ GetByListReturn(1)
    \/ SetListCacheCheck(1)
    \/ SetListCacheSql(1)
    \/ SetListCacheNow(1)
    \/ SetListCacheGetVersion(1)
    \/ SetListCacheSet(1)
    \/ SetListCacheAddVersion(1)
    \/ GetByIdsVersions(1)
    \/ GetByIdsItems(1)
    \/ GetByIdsSql(1)
    \/ GetByIdsAll(1)
    \/ \E g \in DOMAIN warm : SetOjectCachesNow(g)
    \/ \E g \in DOMAIN warm : SetOjectCachesBody(g)
    \/ \E g \in DOMAIN warm : SetOjectCachesVersion(g)

InitList == SFInit /\ KVInit /\ BootDone

SpecList == InitList /\ [][ListNext /\ UNCHANGED <<sfVars, bootVars>>]_vars

\* one goroutine alone calls GetByList and NotifyModified, on a cold cache
\* and on one that holds a list
ListNotifyNext ==
    \/ Tick
    \/ \E name \in Names : StartGetByList(1, "gorm.io/gorm_DB", name)
    \/ \E id \in 1..MaxId, name \in Names : StartNotifyModified(1, id, name)
    \/ NotifyModifiedVersion(1)
    \/ NotifyModifiedDelete(1)
    \/ UpdateVersionNow(1)
    \/ UpdateVersionSet(1)
    \/ GetByListVersion(1)
    \/ GetByListGet(1)
    \/ GetByListReturn(1)
    \/ SetListCacheCheck(1)
    \/ SetListCacheSql(1)
    \/ SetListCacheNow(1)
    \/ SetListCacheGetVersion(1)
    \/ SetListCacheSet(1)
    \/ SetListCacheAddVersion(1)
    \/ GetByIdsVersions(1)
    \/ GetByIdsItems(1)
    \/ GetByIdsSql(1)
    \/ GetByIdsAll(1)
    \/ \E g \in DOMAIN warm : SetOjectCachesNow(g)
    \/ \E g \in DOMAIN warm : SetOjectCachesBody(g)
    \/ \E g \in DOMAIN warm : SetOjectCachesVersion(g)

InitListNotify == SFInit /\ (KVInit \/ ListWarmInit) /\ BootDone

SpecListNotify ==
    InitListNotify /\ [][ListNotifyNext /\ UNCHANGED <<sfVars, bootVars>>]_vars

\* InitializeCache of the registered CacheDaos, then the application's reads
InitBoot == SFInit /\ KVInit /\ BootInit

SpecBoot == InitBoot /\ [][BootNext /\ UNCHANGED <<sfVars, kvVars>>]_vars


\* the id lists given to GetByIds
IdLists == UNION {[1..n -> 0..MaxBatchId] : n \in 0..MaxIdsLen}

\* one GetByIds call on each state of the cache, and the goroutines it starts
\* (GetByIds reads no clock, and its goroutines run after it has returned)
IdsNext ==
    \/ \E ids \in IdLists : hist[1] = <<>> /\ StartGetByIds(1, ids)
    \/ GetByIdsVersions(1)
    \/ GetByIdsItems(1)
    \/ GetByIdsSql(1)
    \/ GetByIdsAll(1)
    \/ \E g \in DOMAIN warm : SetOjectCachesNow(g)
    \/ \E g \in DOMAIN warm : SetOjectCachesBody(g)
    \/ \E g \in DOMAIN warm : SetOjectCachesVersion(g)

InitIds == SFInit /\ IdsInit /\ BootDone

SpecIds == InitIds /\ [][IdsNext /\ UNCHANGED <<sfVars, bootVars>>]_vars

(***************************************************************************)
(* Claims about the single-flight proxy.                                   *)
(***************************************************************************)

\* C1, as claimed: a caller that entered AntiPenetrateWithCache while the
\* callee was running for its fingerprint, with no memo entry, does not invoke
\* the callee itself (the callee runs exactly once for the burst).
C1_InvokedOnceForBurst == \A p \in Callers : sf[p].overlap => ~sf[p].called

\* C1, amended: a caller whose LoadOrStore finds the leader's rendezvous in
\* the in-flight map never invokes the callee, and when it returns without
\* timing out it returns the values the callee returned to that leader; the
\* leader returns them too. (A callee that panicked returned nothing: the
\* waiters released by it return the empty result.)
C1_SingleFlightAtomicity ==
    \A p \in Callers :
        /\ sf[p].arrived =>
              /\ ~sf[p].called
              /\ (sf[p].pc = "idle" /\ ~sf[p].timedOut) =>
                    /\ sf[p].rv \in DOMAIN calleeRet
                    /\ sf[p].retValuesPtr =
                          IF CalleePanicked(sf[p].rv) THEN <<>>
                          ELSE calleeRet[sf[p].rv]
        /\ (sf[p].role = "leader" /\ sf[p].pc = "idle" /\ ~sf[p].panicked) =>
              sf[p].retValuesPtr = calleeRet[sf[p].rv]

\* a waiter and its leader have both returned the callee's two values
C1_Witness ==
    \E p, q \in Callers :
        /\ p # q
        /\ sf[p].arrived /\ sf[p].pc = "idle" /\ ~sf[p].timedOut
        /\ sf[q].role = "leader" /\ sf[q].pc = "idle" /\ sf[q].rv = sf[p].rv
        /\ Len(sf[p].retValuesPtr) = 2
        /\ sf[q].retValuesPtr = sf[p].retValuesPtr

\* C2: at any time at most one goroutine is executing the callee for a given
\* fingerprint, and a goroutine on the waiter path has not invoked the callee.
C2_OneLeaderPerFingerprint ==
    /\ \A p, q \in Callers :
          (sf[p].pc = "calling" /\ sf[q].pc = "calling" /\ sf[p].key = sf[q].key)
             => p = q
    /\ \A p \in Callers : sf[p].role = "waiter" => ~sf[p].called

\* the callee is running for a fingerprint while another goroutine waits on it
C2_Witness ==
    \E p, q \in Callers :
        /\ sf[p].pc = "calling"
        /\ sf[q].pc = "wait" /\ sf[q].role = "waiter" /\ sf[q].key = sf[p].key


\* the callee of rendezvous r has produced nothing yet
NoResultYet(r) == r \notin DOMAIN calleeRet

\* a waiter whose wait ends returns the shared slot as it stands, which is
\* empty while the leader's callee has produced nothing
C11_ReturnsCurrentSharedResult ==
    [][\A p \in Callers :
          (sf[p].pc = "wait" /\ sf'[p].pc = "idle") =>
              /\ sf'[p].retValuesPtr = wv[sf[p].rv].Value
              /\ NoResultYet(sf[p].rv) =>
                    sf'[p].timedOut /\ sf'[p].retValuesPtr = <<>>]_vars

\* C11: a waiter whose leader has not completed when the timer fires (a leader
\* that never completes included) returns the current shared result, empty
\* when the leader has produced nothing, and every waiter eventually returns.
C11_WaiterTimeout ==
    /\ C11_ReturnsCurrentSharedResult
    /\ \A p \in Callers : (sf[p].pc = "wait") ~> (sf[p].pc = "idle")

\* a call has waited on the rendezvous of a leader that never completes and
\* has returned the empty result on its timeout
C11_Witness ==
    \E p, q \in Callers :
        /\ sf[p].ncalls > 0 /\ sf[p].pc = "idle" /\ sf[p].role = "waiter"
        /\ sf[p].timedOut /\ sf[p].retValuesPtr = <<>>
        /\ sf[q].pc = "calling" /\ sf[q].hung /\ sf[q].rv = sf[p].rv

\* a waiter of rendezvous r has timed out
TimedOutOn(r) ==
    \E w \in Callers :
        \/ sf[w].timedOut /\ sf[w].rv = r /\ sf[w].pc = "idle"
        \/ sf[w].lastTimedOut = r

\* the leader of key never completes, a waiter of its has timed out and none
\* is waiting any more
StuckAndAbandoned(key) ==
    \E q \in Callers :
        /\ sf[q].pc = "calling" /\ sf[q].hung /\ sf[q].key = key
        /\ TimedOutOn(sf[q].rv)
        /\ \A w \in Callers : ~(sf[w].pc = "wait" /\ sf[w].rv = sf[q].rv)

\* C12: when a leader never completes and its waiters have timed out, the next
\* call with the same fingerprint becomes a new leader and invokes the callee.
C12_NewLeaderAfterStuckLeader ==
    [][\A p \in Callers :
          (sf[p].pc = "los" /\ sf'[p].pc # "los" /\ StuckAndAbandoned(sf[p].key)) =>
              sf'[p].role = "leader" /\ sf'[p].called]_vars

\* the rendezvous r is the one in flight for key
InFlight(key, r) == key \in DOMAIN antiPanetrateMap /\ antiPanetrateMap[key] = r

\* the leader of the rendezvous r has not executed Delete: it is before it, or
\* its callee panicked
NotDeleted(r) ==
    \/ CalleePanicked(r)
    \/ /\ sf[r[1]].rv = r /\ sf[r[1]].role = "leader"
       /\ sf[r[1]].pc \in {"calling", "store", "delete"}

\* the leader's order: results stored, then the entry removed, then the memo
LeaderOrder ==
    /\ \A p \in Callers :
          /\ sf[p].pc \in {"delete", "setmemo", "return"} =>
                wv[sf[p].rv].Value = calleeRet[sf[p].rv]
          /\ sf[p].pc \in {"setmemo", "return"} => ~InFlight(sf[p].key, sf[p].rv)
    /\ \A key \in DOMAIN gc : ~InFlight(key, gc[key].Value)
    /\ \A key \in DOMAIN antiPanetrateMap : NotDeleted(antiPanetrateMap[key])

\* C13, as stated: a caller that arrives after the leader's callee returned
\* never becomes a waiter on that rendezvous.
C13_NoWaiterAfterCalleeReturned ==
    \A p \in Callers : ~(sf[p].role = "waiter" /\ sf[p].rv = sf[p].completed)

\* C13, amended: the leader stores the results, then removes the in-flight
\* entry, then populates the memo; a caller that becomes a waiter waits on
\* the rendezvous in the in-flight map, whose leader has not executed Delete:
\* a caller that arrives after the Delete reads the memo or becomes leader.
C13_RemovedBeforeMemo ==
    /\ []LeaderOrder
    /\ [][\A p \in Callers :
             (sf[p].pc = "los" /\ sf'[p].role = "waiter") =>
                 sf'[p].rv = antiPanetrateMap[sf[p].key]]_vars

\* a caller has started a new rendezvous as leader while the former leader of
\* the fingerprint, past its Delete, has not populated the memo yet
C13_Witness ==
    \E p, q \in Callers :
        /\ p # q /\ sf[p].key = sf[q].key
        /\ sf[q].pc = "setmemo"
        /\ sf[p].role = "leader" /\ sf[p].pc = "calling"

\* C14, as stated: a call made after the expiry of the memo entry invokes the
\* callee again.
C14_CalleeInvokedAfterExpiry ==
    \A p \in Callers :
        (sf[p].afterExpiry /\ sf[p].pc \notin {"memo", "los"}) => sf[p].called

\* the memo lookup of a call, by the age of the entry
C14_MemoLookup ==
    [][\A p \in Callers :
          (sf[p].pc = "memo" /\ sf'[p].pc # "memo" /\ sf[p].key \in DOMAIN gc) =>
              LET item == gc[sf[p].key] IN
              /\ sfNow < item.setAt + item.cacheMillis + 100 =>
                    /\ sf'[p].pc = "idle" /\ ~sf'[p].called
                    /\ sf'[p].retValuesPtr = calleeRet[item.Value]
                    /\ antiPanetrateMap' = antiPanetrateMap
              /\ sfNow > item.setAt + item.cacheMillis + 100 =>
                    sf'[p].pc = "los"]_vars

\* the memo is written by leaders called with cacheMillis > 0 only
C14_MemoWrites ==
    [][gc' # gc =>
          \E p \in Callers :
              /\ sf[p].pc = "setmemo" /\ sf[p].cacheMillis > 0
              /\ gc' = MapPut(gc, sf[p].key,
                              [Value |-> sf[p].rv,
                               expire |-> sfNow + sf[p].cacheMillis + 100,
                               setAt |-> sfNow,
                               cacheMillis |-> sf[p].cacheMillis])]_vars

\* a call that finds no live memo entry invokes the callee unless a
\* rendezvous for its fingerprint is in flight
C14_MissGoesToRendezvous ==
    [][\A p \in Callers :
          (sf[p].pc = "los" /\ sf'[p].pc # "los") =>
              sf'[p].called = (sf[p].key \notin DOMAIN antiPanetrateMap)]_vars

\* C14, amended: while the entry is younger than cacheMillis + 100 ms a call
\* returns the memoized result without invoking the callee and without
\* touching the in-flight map; once it is older the call goes on to the
\* rendezvous, where it invokes the callee unless a call for the fingerprint
\* is in flight; with cacheMillis = 0 nothing is placed in the memo.
C14_Memoization == C14_MemoLookup /\ C14_MemoWrites /\ C14_MissGoesToRendezvous

\* a call has returned the memoized result 550 ms after a leader called with
\* cacheMillis = 500 populated the memo, and the callee had returned it
C14_Witness ==
    \E p \in Callers :
        /\ sf[p].role = "memo" /\ sf[p].pc = "idle"
        /\ sf[p].key \in DOMAIN gc
        /\ gc[sf[p].key].Value = sf[p].rv /\ sf[p].rv[2] > 0
        /\ gc[sf[p].key].cacheMillis = 500
        /\ sfNow >= gc[sf[p].key].setAt + 550
        /\ sfNow < gc[sf[p].key].expire
        /\ Len(sf[p].retValuesPtr) = 2

\* C15: once a leader has returned, the in-flight map does not hold its
\* rendezvous; when no call is in progress the in-flight map is empty.
C15_InFlightMapCleanedUp ==
    /\ \A p \in Callers :
          (sf[p].role = "leader" /\ sf[p].pc = "idle") =>
              ~InFlight(sf[p].key, sf[p].rv)
    /\ (\A p \in Callers : sf[p].pc = "idle") =>
          DOMAIN antiPanetrateMap = {}


\* C31: the values a waiter has returned are the empty result or the
\* complete list of the values the callee returned to the leader of its
\* rendezvous, also when its timeout fired while the leader was storing them
C31_WaiterResultEmptyOrComplete ==
    \A p \in Callers :
        (sf[p].pc = "idle" /\ sf[p].role = "waiter") =>
            \/ sf[p].retValuesPtr = <<>>
            \/ /\ sf[p].rv \in DOMAIN calleeRet
               /\ ~CalleePanicked(sf[p].rv)
               /\ sf[p].retValuesPtr = calleeRet[sf[p].rv]

\* C32: once the callee has panicked under the leader of a rendezvous, the
\* rendezvous is released and the in-flight map does not hold it, so that a
\* later call with the fingerprint does not load it
C32_PanicReleasesAndRemoves ==
    \A r \in DOMAIN calleeRet :
        CalleePanicked(r) =>
            /\ wv[r].WaitGroup = 0
            /\ \A key \in DOMAIN antiPanetrateMap : antiPanetrateMap[key] # r
            /\ \A p \in Callers :
                  (sf[p].role = "waiter" /\ sf[p].rv = r) => sf[p].overlap

\* C33: two calls whose argument tuples differ have different fingerprints,
\* and a waiter has the argument tuple of the leader whose rendezvous it
\* loaded
C33_FingerprintsSeparateCalls ==
    \A p, q \in Callers :
        /\ (/\ Len(sf[p].inputValues) > 0
            /\ Len(sf[q].inputValues) > 0
            /\ sf[p].inputValues # sf[q].inputValues) =>
               sf[p].key # sf[q].key
        /\ (/\ sf[p].role = "waiter"
            /\ sf[q].role = "leader"
            /\ sf[p].rv = sf[q].rv) =>
               sf[p].inputValues = sf[q].inputValues

\* two arguments that are equal as multisets: slices that are permutations
\* of each other, maps with the same entries
SameAsMultiset(a, b) ==
    /\ Kind(a) = Kind(b)
    /\ Len(a[2]) = Len(b[2])
    /\ \A e \in Range(a[2]) \cup Range(b[2]) :
          Cardinality({i \in DOMAIN a[2] : a[2][i] = e})
              = Cardinality({i \in DOMAIN b[2] : b[2][i] = e})

SameInputs(x, y) ==
    /\ Len(x) = Len(y)
    /\ \A i \in DOMAIN x : SameAsMultiset(x[i], y[i])

\* C26: two calls whose slice or map arguments are equal as multisets (a
\* permutation of the elements, another iteration order of the map) get the
\* same fingerprint from MakePenetrateKey
C26_FingerprintIgnoresOrder ==
    \A p, q \in Callers :
        (/\ Len(sf[p].inputValues) > 0
         /\ Len(sf[q].inputValues) > 0
         /\ SameInputs(sf[p].inputValues, sf[q].inputValues)) =>
            sf[p].key = sf[q].key

\* C27: two calls of a key builder whose slice arguments are permutations of
\* each other return the same key prefix, and the same version key
C27_KeyBuilderIgnoresOrder ==
    \A p, q \in Procs :
        \A m \in DOMAIN hist[p] :
            \A n \in DOMAIN hist[q] :
                (/\ hist[p][m].op \in {"MakeKeyPrefix", "MakeMethodVersionKey"}
                 /\ hist[p][m].op = hist[q][n].op
                 /\ SameInputs(hist[p][m].arg, hist[q][n].arg)) =>
                    hist[p][m].res = hist[q][n].res

\* C28: after a successful Initialize every NotifyInfo of the CacheDao, in
\* NotifyInfos and in MethodNotifyInfoMap, has as many fields as args
C28_FieldsMatchArgs ==
    \A d \in boot.visited :
        boot.errs[d] = "" =>
            LET schema == boot.schema[d] IN
            /\ \A i \in DOMAIN schema.NotifyInfos :
                  Len(schema.NotifyInfos[i].Fields) = Len(schema.NotifyInfos[i].Args)
            /\ \A f \in DOMAIN schema.MethodNotifyInfoMap :
                  Len(schema.MethodNotifyInfoMap[f].Fields)
                      = Len(schema.MethodNotifyInfoMap[f].Args)

(***************************************************************************)
(* Claims about version tokens and the object cache.                       *)
(***************************************************************************)

\* a version token as a number
Token(version) == ConvertStringToNumber(version)

\* C3 as stated: under any interleaving of SetObjectCache calls, and of
\* UpdateVersion calls, the tokens successively stored at a version key never
\* decrease.
C3_StoredTokensNeverDecrease ==
    [][\A key \in DOMAIN kv :
          (IsVersionKey(key) /\ key \in DOMAIN kv') => Token(kv'[key]) >= Token(kv[key])]_vars

\* the version key a goroutine inside SetObjectCache or UpdateVersion writes
WrittenVersionKey(p) ==
    IF pr[p].pc = "nm_set" THEN NotifyVersionKey(p) ELSE MakeObjectVersionKey(pr[p].id)

\* C3, amended: with a clock that does not step back, a SetObjectCache or
\* UpdateVersion call never stores a token smaller than the token the version
\* key held when the call read the clock (so calls that do not overlap store
\* non-decreasing tokens), and never a token ahead of the clock.
C3_TokenNotBelowTheOneFound ==
    [][\A p \in Procs :
          (pr[p].pc \in {"soc_ver", "nm_set"} /\ pr'[p].pc # pr[p].pc) =>
              LET token == Token(kv'[WrittenVersionKey(p)]) IN
              /\ token <= clock'
              /\ pr[p].seen # "" => token >= Token(pr[p].seen)]_vars

\* C3 witness: two overlapping calls that read the clock at different times are
\* each about to store their token at the same version key, which held a token
\* when they read the clock.
C3_Witness ==
    \E p, q \in Procs :
        /\ pr[p].pc \in {"soc_ver", "nm_set"}
        /\ pr[q].pc \in {"soc_ver", "nm_set"}
        /\ WrittenVersionKey(p) = WrittenVersionKey(q)
        /\ pr[p].seen # ""
        /\ pr[q].seen # ""
        /\ pr[p].now < pr[q].now

\* C4: in any interleaving of SetObjectCache calls and readers, a token t at
\* the object-version key of id has a body at objectKey(id, t), and a reader
\* that read t finds that body.
C4_BodyBeforeVersion ==
    /\ \A id \in 0..(MaxId + 1) :
          LET t == VersionAt(MakeObjectVersionKey(id)) IN
          t # "" => MakeObjectKey(id, t) \in DOMAIN kv
    /\ \A p \in Procs : pr[p].pc = "gbi_body" => pr[p].key \in DOMAIN kv

\* C4 witness: a reader has read a token from the object-version key while
\* another goroutine is inside SetObjectCache for the same id.
C4_Witness ==
    \E p, q \in Procs :
        /\ pr[p].pc = "gbi_body"
        /\ pr[q].pc \in {"soc_body", "soc_ver"}
        /\ pr[q].id = pr[p].id

\* C22 as stated: a GetById whose body lookup returns a record read the body
\* under the token the object-version key holds at that moment (a reader
\* whose token has been superseded by a newer SetObjectCache misses).
C22_OutdatedTokenMisses ==
    [][\A p \in Procs :
          (/\ pr[p].op = "GetById"
           /\ pr[p].pc = "gbi_body"
           /\ pr'[p].pc = "idle"
           /\ hist'[p][1].res # <<>>) =>
              pr[p].key = MakeObjectKey(pr[p].id,
                                        VersionAt(MakeObjectVersionKey(pr[p].id)))]_vars

(***************************************************************************)
(* Claims about invalidation.                                              *)
(***************************************************************************)

\* the query-cache key a GetByConcreteKey(name) reads now, "" with no version
CurrentKey(name) ==
    LET version == VersionAt(MakeMethodVersionKey("FindByName", StrArgs(<<name>>))) IN
    IF version = "" THEN ""
    ELSE MakeKey(MakeKeyPrefix("FindByName", StrArgs(<<name>>)), version)

\* C5 as stated: after NotifyModified(r) has returned, no GetByConcreteKey
\* whose field values equal those of r reads a query-cache entry written
\* before that NotifyModified call: the entry's key is not the current key.
C5_InvalidatedEntriesUnreachable ==
    \A name \in Names : CurrentKey(name) \notin dead \cap DOMAIN kv

\* the record the object cache now serves for id: <<record>>, or <<>>
CachedObject(id) ==
    LET t == VersionAt(MakeObjectVersionKey(id)) IN
    IF t = "" \/ MakeObjectKey(id, t) \notin DOMAIN kv THEN <<>>
    ELSE Deserialize(kv[MakeObjectKey(id, t)])

\* C6 as stated: once NotifyModified(r) has completed and the cache fills that
\* overlapped it have returned, the object cache does not serve the
\* pre-mutation record of r.
C6_NoStaleRecordAfterNotify ==
    (\A p \in Procs : pr[p].pc = "idle") =>
        \A p \in Procs :
            \A n \in DOMAIN hist[p] :
                hist[p][n].op = "NotifyModified" =>
                    LET id == hist[p][n].arg[1].ID IN
                    CachedObject(id) \in {<<>>, <<[ID |-> id, Name |-> db[id]]>>}

\* C20 as stated: when NotifyModified(r) returns, for every NotifyInfo the
\* version key made of its prefix and r's values of its fields holds the
\* token of that call, the millisecond UpdateVersion read during it.
C20_EveryQueryVersionAdvanced ==
    [][\A p \in Procs :
          (pr[p].op = "NotifyModified" /\ pr[p].pc # "idle" /\ pr'[p].pc = "idle") =>
              \A i \in DOMAIN NotifyInfos :
                  LET vKey == MakeVersionKey(NotifyInfos[i].VersionKeyPrefix,
                                  GetFieldsStringValues(pr[p].obj[1], NotifyInfos[i].Fields)) IN
                  /\ vKey \in DOMAIN kv'
                  /\ kv'[vKey] = ConvertNumberToString(pr[p].now)]_vars

\* C21: NotifyModified is best effort on the object delete. Every
\* NotifyModified returns nil, also after a failed read of the object version
\* or a failed Delete of the body, and when it returns every version key of
\* the record holds the token of the call; NotifyModified(nil) returns nil
\* in one step that leaves the memcache server as it was.
C21_DeleteIsBestEffort ==
    [][\A p \in Procs :
          (Len(hist'[p]) > Len(hist[p]) /\ hist'[p][1].op = "NotifyModified") =>
              /\ hist'[p][1].err = ""
              /\ IF hist'[p][1].arg = <<Nil>>
                 THEN kv' = kv /\ pr[p].pc = "idle"
                 ELSE \A i \in DOMAIN NotifyInfos :
                         LET vKey == MakeVersionKey(NotifyInfos[i].VersionKeyPrefix,
                                         GetFieldsStringValues(hist'[p][1].arg[1],
                                                               NotifyInfos[i].Fields)) IN
                         /\ vKey \in DOMAIN kv'
                         /\ kv'[vKey] = ConvertNumberToString(pr[p].now)]_vars

\* a NotifyModified of row 1 has returned nil with its version key written,
\* while the body the object version names is still stored (the read of the
\* version or the Delete failed); and a NotifyModified(nil) has returned
C21_Witness ==
    /\ \E p \in Procs : \E n \in DOMAIN hist[p] :
          /\ hist[p][n].op = "NotifyModified"
          /\ hist[p][n].arg # <<Nil>>
          /\ hist[p][n].err = ""
          /\ MakeVersionKey(NotifyInfoFindByName.VersionKeyPrefix,
                            GetFieldsStringValues(hist[p][n].arg[1],
                                                  NotifyInfoFindByName.Fields)) \in DOMAIN kv
    /\ MakeObjectVersionKey(1) \in DOMAIN kv
    /\ MakeObjectKey(1, kv[MakeObjectVersionKey(1)]) \in DOMAIN kv
    /\ \E p \in Procs : \E n \in DOMAIN hist[p] :
          hist[p][n].op = "NotifyModified" /\ hist[p][n].arg = <<Nil>>

(***************************************************************************)
(* Claims about GetByConcreteKeys.                                         *)
(***************************************************************************)

\* no argument of the tuple is a list
NoListArg(args) == \A j \in DOMAIN args : args[j].kind # "slice"

\* two list arguments of the tuple differ in length
ListLengthsDiffer(args) ==
    \E i, j \in DOMAIN args :
        /\ args[i].kind = "slice" /\ args[j].kind = "slice"
        /\ Len(args[i].val) # Len(args[j].val)

\* the call of goroutine p returns err and nil in this step, which changes
\* neither the cache nor the data source and starts no goroutine, and it has
\* made no call of the data source
ReturnsArgError(p, err) ==
    /\ pr'[p].pc = "idle"
    /\ Head(hist'[p]).err = err /\ Head(hist'[p]).res = <<>> /\ Head(hist'[p]).sql = 0
    /\ kv' = kv /\ db' = db /\ warm' = warm

\* C16: a GetByConcreteKeys with no list argument returns the no-list-arg
\* error, one whose list arguments differ in length returns the
\* length-mismatch error; both return in the first step after the call,
\* before any read or write of the cache and any call of the data source.
C16_ArgumentErrors ==
    [][\A p \in Procs :
          (pr[p].op = "GetByConcreteKeys" /\ pr[p].pc = "gcks_args" /\ pr'[p] # pr[p]) =>
              /\ NoListArg(pr[p].arg) =>
                    ReturnsArgError(p, "There is no list arg in args")
              /\ ListLengthsDiffer(pr[p].arg) =>
                    ReturnsArgError(p, "the length of list parameter is not equal")]_vars

C16_Witness ==
    /\ hist[1] # <<>>
    /\ hist[1][1].op = "GetByConcreteKeys"
    /\ ListLengthsDiffer(hist[1][1].arg)
    /\ hist[1][1].err = "the length of list parameter is not equal"
    /\ kv # EmptyMap

\* the tuples of a call that no record of the list objs matches in the key
\* fields of the method
Unmatched(args, objs) ==
    LET notifyInfo == MethodNotifyInfoMap["FindByNames"]
        paramArrays == ParamArrays(args)
    IN  {i \in DOMAIN paramArrays :
            \A n \in DOMAIN objs :
                getObjMapKey(objs[n], notifyInfo) #
                    JoinStrings([m \in DOMAIN notifyInfo.Args |->
                                    paramArrays[i][notifyInfo.Args[m] + 1]], "_")}

\* the lists of an argument tuple given to the SQL dao method hold, row by
\* row, the unmatched tuples of the call and nothing else
RewrittenToUnmatched(args, cached, call) ==
    LET paramArrays == ParamArrays(args)
        rows == ParamArrays(call)
    IN  /\ \A i \in Unmatched(args, cached) : \E n \in DOMAIN rows : rows[n] = paramArrays[i]
        /\ \A n \in DOMAIN rows : \E i \in Unmatched(args, cached) : rows[n] = paramArrays[i]

\* the list holds a record for every tuple of the call that has a row in the
\* data source
RecordForEveryTuple(args, list) ==
    \A i \in Unmatched(args, list) :
        \A id \in DOMAIN db : db[id] # ParamArrays(args)[i][1]

\* C24 as stated: a GetByConcreteKeys without memcache error calls the SQL dao
\* method at most once, with the list arguments holding exactly the rows that
\* no record obtained from the cache matches (the lists aligned row by row),
\* and returns a record for every tuple that has a row in the data source.
C24_RefillsTheUnmatchedRows ==
    \A n \in DOMAIN hist[1] :
        (/\ hist[1][n].op = "GetByConcreteKeys"
         /\ hist[1][n].err = ""
         /\ hist[1][n].faults = {}) =>
            /\ Len(hist[1][n].calls) <= 1
            /\ \A c \in DOMAIN hist[1][n].calls :
                  RewrittenToUnmatched(hist[1][n].arg, hist[1][n].cached, hist[1][n].calls[c])
            /\ RecordForEveryTuple(hist[1][n].arg, hist[1][n].res[1])

(***************************************************************************)
(* Claims about GetByList.                                                 *)
(***************************************************************************)

\* C17 as stated: a GetByList whose first argument is not the gorm handle
\* returns the wrong-handle error of dbArgCheck, a non-nil error, whether the
\* cache is cold or warm.
C17_WrongHandleIsAnError ==
    \A n \in DOMAIN hist[1] :
        (hist[1][n].op = "GetByList" /\ hist[1][n].arg[1] # "gorm.io/gorm_DB") =>
            hist[1][n].err = dbArgCheck(hist[1][n].arg)

\* the n-th newest operation of the goroutine is a GetByList with the gorm
\* handle during which no memcache or data-source call failed
GetByListWithoutFault(n) ==
    /\ n \in DOMAIN hist[1]
    /\ hist[1][n].op = "GetByList"
    /\ hist[1][n].arg[1] = "gorm.io/gorm_DB"
    /\ hist[1][n].faults = {}

\* the ids of the records of a list
IdsOf(list) == [i \in DOMAIN list |-> GetIdValue(list[i])]

\* C25 as stated: (a) when a GetByList that asked the data source has
\* returned, the version key holds a token and the method cache key made of
\* it holds the ids it returned; (b) a GetByList that directly follows one
\* with the same arguments does not ask the data source and returns the
\* records of the stored ids; (c) a GetByList that directly follows a
\* NotifyModified of a record with its governing field value asks the data
\* source again.
C25_MissThenHitThenMiss ==
    /\ (GetByListWithoutFault(1) /\ hist[1][1].calls # <<>> /\ pr[1].pc = "idle") =>
          LET versionKey == MakeMethodVersionKey("ListByName", StrArgs(hist[1][1].arg))
              keyPrefix == MakeKeyPrefix("ListByName", StrArgs(hist[1][1].arg)) IN
          /\ versionKey \in DOMAIN kv
          /\ MakeKey(keyPrefix, kv[versionKey]) \in DOMAIN kv
          /\ kv[MakeKey(keyPrefix, kv[versionKey])] = MarshalIds(IdsOf(hist[1][1].res[1]))
    /\ \A n \in 1..MaxOps :
          (/\ GetByListWithoutFault(n)
           /\ GetByListWithoutFault(n + 1)
           /\ hist[1][n].arg = hist[1][n + 1].arg) =>
              /\ hist[1][n].calls = <<>>
              /\ IdsOf(hist[1][n].res[1]) = IdsOf(hist[1][n + 1].res[1])
    /\ \A n \in 1..MaxOps :
          (/\ GetByListWithoutFault(n)
           /\ n + 1 \in DOMAIN hist[1]
           /\ hist[1][n + 1].op = "NotifyModified"
           /\ hist[1][n + 1].arg[1].Name = hist[1][n].arg[2]) =>
              hist[1][n].calls # <<>>


(***************************************************************************)

\* C19 as stated: when Initialize returns an error for a registered CacheDao,
\* InitializeCache does not complete normally, and the application never
\* reads through that CacheDao.
C19_InitFailuresAreFatal ==
    \A d \in Daos :
        boot.errs[d] # "" => boot.pc # "returned" /\ d \notin boot.served

(***************************************************************************)
(* Claims about one goroutine in a quiescent system.                       *)
(***************************************************************************)

\* GetById(r.ID), the n-th newest operation of the goroutine, directly follows
\* a SetObjectCache(r) that returned without error
ReadsBackSetObjectCache(n) ==
    /\ n + 1 <= Len(hist[1])
    /\ hist[1][n + 1].op = "SetObjectCache"
    /\ hist[1][n + 1].err = ""
    /\ hist[1][n].op = "GetById"
    /\ hist[1][n].arg[1] = hist[1][n + 1].arg[1].ID

\* that GetById returned a record equal to r without calling the data source
ReturnedFromCache(n) ==
    /\ hist[1][n].err = ""
    /\ hist[1][n].res = hist[1][n + 1].arg
    /\ hist[1][n].sql = 0

SecondGetById(n) ==
    /\ n + 1 <= Len(hist[1])
    /\ hist[1][n + 1].op = "GetById"
    /\ hist[1][n + 1].sql = 1
    /\ hist[1][n + 1].res # <<>>
    /\ hist[1][n + 1].err = ""
    /\ hist[1][n].op = "GetById"
    /\ hist[1][n].arg = hist[1][n + 1].arg

\* C23: SetCache is version preserving. When SetCache returns (here as the
\* last step of a GetByConcreteKey that missed): if the method version key
\* held a token, the token is unchanged and the id entry was written under the
\* key made of that token; otherwise the version key now holds the timestamp
\* SetCache read and the entry was written under the key made of it; in both
\* cases the key GetKey makes from the stored version holds the id of the
\* object.
C23_SetCachePreservesVersion ==
    [][(pr[1].pc = "sc_add" /\ pr'[1].pc = "idle") =>
          LET versionKey == MakeMethodVersionKey("FindByName", StrArgs(pr[1].arg))
              keyPrefix == MakeKeyPrefix("FindByName", StrArgs(pr[1].arg)) IN
          /\ IF versionKey \in DOMAIN kv
             THEN /\ kv'[versionKey] = kv[versionKey]
                  /\ SetCacheKey(1) = MakeKey(keyPrefix, kv[versionKey])
             ELSE /\ kv'[versionKey] = ConvertNumberToString(pr[1].qnow)
                  /\ pr[1].qnow <= clock
                  /\ SetCacheKey(1) = MakeKey(keyPrefix, ConvertNumberToString(pr[1].qnow))
          /\ MakeKey(keyPrefix, kv'[versionKey]) \in DOMAIN kv'
          /\ kv'[MakeKey(keyPrefix, kv'[versionKey])] =
                 ConvertUNumberToString(GetIdValue(pr[1].obj[1]))]_vars

\* C23 witness: at millisecond 2 a GetByConcreteKey that called the data
\* source has returned after a NotifyModified at millisecond 1; the version
\* key still holds the token of NotifyModified and the entry is under it.
C23_Witness ==
    /\ Len(hist[1]) = 2
    /\ hist[1][2].op = "NotifyModified"
    /\ hist[1][1].op = "GetByConcreteKey"
    /\ hist[1][1].sql = 1
    /\ hist[1][1].res # <<>>
    /\ LET versionKey == MakeMethodVersionKey("FindByName", StrArgs(hist[1][1].arg)) IN
       /\ versionKey \in DOMAIN kv
       /\ kv[versionKey] = ConvertNumberToString(1)
       /\ MakeKey(MakeKeyPrefix("FindByName", StrArgs(hist[1][1].arg)), kv[versionKey]) \in DOMAIN kv
    /\ clock = 2

\* C10: when GetById(id) misses and the data source holds the record, the data
\* source is called once and a second GetById(id) returns an equal record
\* without calling the data source.
C10_ColdGetByIdCaches ==
    /\ \A n \in 1..MaxOps :
          SecondGetById(n) => /\ hist[1][n].sql = 0
                              /\ hist[1][n].err = ""
                              /\ hist[1][n].res = hist[1][n + 1].res
    /\ \A n \in DOMAIN hist[1] : hist[1][n].op = "GetById" => hist[1][n].sql <= 1
    /\ (pr[1].op = "GetById" /\ pr[1].pc \in {"soc_now", "soc_body", "soc_ver"}) =>
          pr[1].sql = 1

\* C10 witness: a GetById that missed and was served by the data source is
\* followed by a GetById of the same id that returned the same record.
C10_Witness ==
    /\ SecondGetById(1)
    /\ hist[1][1].sql = 0
    /\ hist[1][1].res = hist[1][2].res
    /\ hist[1][1].res # <<>>

\* the bodies the codec of this CacheDao writes
WellFormedBodies == {Serialize([ID |-> i, Name |-> n]) : i \in 0..(MaxId + 1), n \in Names}

\* C18: when the object version and the body are both present but the body
\* does not deserialize, GetById returns the error and no record, has not
\* called the data source, and leaves the cache as it was.
C18_CodecErrorIsReturned ==
    [][\A p \in Procs :
          /\ (pr[p].pc \in {"gbi_ver", "gbi_body"} /\ pr'[p] # pr[p]) =>
                kv' = kv /\ db' = db
          /\ (/\ pr[p].pc = "gbi_body" /\ pr'[p].pc # "gbi_body"
              /\ pr[p].key \in DOMAIN kv
              /\ kv[pr[p].key] \notin WellFormedBodies) =>
                /\ pr'[p].pc = "idle"
                /\ Head(hist'[p]).err = "deserialize"
                /\ Head(hist'[p]).res = <<>>
                /\ Head(hist'[p]).sql = 0]_vars

\* a GetById call has returned the codec error, and the data source was not
\* called
C18_Witness ==
    \E n \in 1..MaxOps :
        /\ Len(hist[1]) >= n
        /\ hist[1][n].op = "GetById"
        /\ hist[1][n].err = "deserialize"
        /\ hist[1][n].sql = 0


\* the two newest operations before the n-th newest are SetObjectCache(r)
\* and SetObjectCache(r), both returned without error
WarmedTwice(n) ==
    /\ n + 2 <= Len(hist[1])
    /\ hist[1][n + 1].op = "SetObjectCache"
    /\ hist[1][n + 2].op = "SetObjectCache"
    /\ hist[1][n + 1].arg = hist[1][n + 2].arg
    /\ hist[1][n + 1].err = ""
    /\ hist[1][n + 2].err = ""

\* the step in which SetObjectCache(r) returns, directly after a completed
\* SetObjectCache(r)
SecondWarmReturns ==
    /\ pr[1].op = "SetObjectCache"
    /\ pr[1].pc = "soc_ver"
    /\ pr'[1].pc = "idle"
    /\ hist[1] # <<>>
    /\ hist[1][1].op = "SetObjectCache"
    /\ hist[1][1].arg = pr[1].arg

\* what a read finds in a cache m for the id: the version, and the body
\* under the key the version names
Advertised(m, id) ==
    LET versionKey == MakeObjectVersionKey(id)
        objCacheKey == MakeObjectKey(id, m[versionKey])
    IN  [k \in {versionKey, objCacheKey} \cap DOMAIN m |-> m[k]]

\* the cache one SetObjectCache(obj) at the moment now leaves when it starts
\* with an empty cache
WarmedOnce(obj, now) ==
    MapPut(MapPut(EmptyMap, MakeObjectKey(GetIdValue(obj), ConvertNumberToString(now)),
                  Serialize(obj)),
           MakeObjectVersionKey(GetIdValue(obj)), ConvertNumberToString(now))

\* after the second of two calls the version key holds the token of that
\* call, and a read finds what a single call at that moment leaves
SecondWarmLeavesOneWarm ==
    [][SecondWarmReturns =>
          LET obj == pr[1].obj[1] IN
          /\ kv'[MakeObjectVersionKey(GetIdValue(obj))] = ConvertNumberToString(pr[1].now)
          /\ Advertised(kv', GetIdValue(obj)) = WarmedOnce(obj, pr[1].now)]_vars

VersionAfter(versionKey) ==
    IF versionKey \in DOMAIN kv' THEN kv'[versionKey] ELSE ""

\* a direct SetObjectCache returns in this step with the error err
SetObjectCacheReturns(err) ==
    /\ pr[1].op = "SetObjectCache"
    /\ pr'[1].pc = "idle"
    /\ Len(hist'[1]) = Len(hist[1]) + 1
    /\ hist'[1][1].err = err

\* the n-th newest operation, GetById(id), follows a SetObjectCache for the
\* id whose version Set failed, which follows a SetObjectCache(r) for the id
\* that returned without error
ReadsAfterFailedVersion(n) ==
    /\ n + 2 <= Len(hist[1])
    /\ hist[1][n + 2].op = "SetObjectCache"
    /\ hist[1][n + 2].err = ""
    /\ hist[1][n + 1].op = "SetObjectCache"
    /\ hist[1][n + 1].err = "memcache: set version"
    /\ hist[1][n + 1].arg[1].ID = hist[1][n + 2].arg[1].ID
    /\ hist[1][n].op = "GetById"
    /\ hist[1][n].arg[1] = hist[1][n + 2].arg[1].ID
    /\ hist[1][n].arg[1] > 0

\* C30: when the version Set of SetObjectCache fails after the body Set, the
\* call returns the error, the version key keeps the token it had, and
\* GetById still returns the record advertised before; when the body Set
\* fails the call returns the error and the version key is not written.
C30_VersionFailureIsSafe ==
    /\ [][SetObjectCacheReturns("memcache: set version") =>
             VersionAfter(MakeObjectVersionKey(pr[1].id)) = pr[1].seen]_vars
    /\ [][(pr[1].op = "SetObjectCache" /\ pr[1].pc = "soc_body"
              /\ pr'[1].pc = "idle") =>
             /\ SetObjectCacheReturns("memcache: set body")
             /\ kv' = kv
             /\ VersionAfter(MakeObjectVersionKey(pr[1].id)) = pr[1].seen]_vars
    /\ [][(pr[1].op = "SetObjectCache" /\ pr[1].pc = "soc_ver"
              /\ pr'[1].pc = "idle"
              /\ VersionAfter(MakeObjectVersionKey(pr[1].id))
                     # ConvertNumberToString(pr[1].now)) =>
             SetObjectCacheReturns("memcache: set version")]_vars
    /\ [](\A n \in 1..MaxOps :
            ReadsAfterFailedVersion(n) =>
                /\ hist[1][n].err = ""
                /\ hist[1][n].res = hist[1][n + 2].arg)

(***************************************************************************)
(* Claims about GetByIds.                                                  *)
(***************************************************************************)

\* the completed operations of the goroutine that calls GetByIds
GetByIdsCalls == {h \in Range(hist[1]) : h.op = "GetByIds"}

\* the object key the cache held for id when the call began, "" without version
SnapKey(h, id) ==
    IF MakeObjectVersionKey(id) \in DOMAIN h.snap
    THEN MakeObjectKey(id, h.snap[MakeObjectVersionKey(id)]) ELSE ""

\* the record id resolves to: the cached one, else the row; <<>> if neither
Resolved(h, id) ==
    IF SnapKey(h, id) \in DOMAIN h.snap THEN Deserialize(h.snap[SnapKey(h, id)])
    ELSE IF id \in DOMAIN db THEN <<[ID |-> id, Name |-> db[id]]>>
    ELSE <<>>

\* the records of the ids that resolve, in the order of the input list
InInputOrder(h) ==
    LET ids == SelectSeq(h.arg[1], LAMBDA id : Resolved(h, id) # <<>>) IN
    [i \in DOMAIN ids |-> Resolved(h, ids[i])[1]]

\* C8 as stated: for every input list, GetByIds returns the records of the ids
\* that resolve, in the caller's input order, and no other record.
C8_InputOrderPreserved ==
    \A h \in GetByIdsCalls : h.err = "" => h.res = InInputOrder(h)

\* the ids of the input that were version-absent or body-absent
AbsentIn(h) == {id \in Range(h.arg[1]) : SnapKey(h, id) \notin DOMAIN h.snap}

\* C9: when no KV or data-source error occurs, GetByIds(ids) calls the data
\* source exactly once, with exactly the ids that are version-absent or
\* body-absent, and not at all when every id is a cache hit.
C9_OneCallForTheAbsentIds ==
    \A h \in GetByIdsCalls :
        h.faults = {} =>
            IF AbsentIn(h) = {} THEN h.calls = <<>>
            ELSE Len(h.calls) = 1 /\ Range(h.calls[1]) = AbsentIn(h)

\* C9 witness: a call without error whose list held a cache hit, a
\* version-absent id and a body-absent id has asked the data source once.
C9_Witness ==
    \E h \in GetByIdsCalls :
        /\ h.faults = {}
        /\ Len(h.calls) = 1
        /\ \E id \in Range(h.arg[1]) : SnapKey(h, id) \in DOMAIN h.snap
        /\ \E id \in AbsentIn(h) : SnapKey(h, id) = ""
        /\ \E id \in AbsentIn(h) : SnapKey(h, id) # ""


\* the object-version keys of the ids in use
ObjectVersionKeys == {MakeObjectVersionKey(id) : id \in 0..(MaxId + 1)}

\* the query-version keys of the names in use
QueryVersionKeys ==
    {MakeVersionKey(VersionKeyPrefix, <<name>>) : name \in NumeralNames}

\* the version key the goroutine is about to advance or add
WritesQueryVersion(key) ==
    \/ pr[1].pc = "nm_set" /\ key = NotifyVersionKey(1)
    \/ /\ pr[1].pc = "sc_add"
       /\ key = MakeMethodVersionKey("FindByName", StrArgs(pr[1].arg))

\* C34: the version keys NotifyModified and SetCache write are no
\* object-version keys; a step of theirs leaves every object version as it
\* is, and a step of SetObjectCache leaves every query version as it is
C34_VersionKeySpacesDisjoint ==
    /\ [](\A key \in ObjectVersionKeys : ~WritesQueryVersion(key))
    /\ [][/\ pr[1].pc \in {"nm_ver", "nm_del", "nm_now", "nm_set",
                           "sc_getver", "sc_set", "sc_add"} =>
                \A key \in ObjectVersionKeys : VersionAfter(key) = VersionAt(key)
          /\ pr[1].pc \in {"soc_now", "soc_body", "soc_ver"} =>
                \A key \in QueryVersionKeys : VersionAfter(key) = VersionAt(key)]_vars

====
